---- MODULE Spec2Model ----
(***************************************************************************)
(* A model of the GLC platform core: the vector store of                   *)
(* app/ai_services/embedding.py, the chunker of                            *)
(* app/ai_services/document_processor.py and app/services/nlp.py, the      *)
(* rules engine of app/services/glp_rules.py and the scoring engine of     *)
(* app/services/scoring.py.                                                *)
(***************************************************************************)
EXTENDS Integers, Sequences, FiniteSets, TLC

(***************************************************************************)
(* Bounds of the model.                                                    *)
(***************************************************************************)
\* largest number of vectors the index holds
MaxIndex == 4
\* largest number of chunks handed to one add_chunks call
MaxChunks == 2
\* largest k of a search
MaxK == 2

\* longest text, in words, the chunker is given (beside the scenario texts)
MaxWords == 5
\* largest configured chunk size (beside the configured sizes of the source)
MaxChunkSize == 3

\* largest number of fragments in use_of_proceeds and extracted_text together
MaxPhrases == 2
\* largest number of claims handed to calculate_composite_score
MaxClaims == 1

Loans == {1, 2}
Texts == {"t1", "t2"}
DocTypes == {"report", "policy"}

\* An Optional[...] argument is a set: {} is None, {x} is the value x.
Optional(S) == {{}} \cup {{x} : x \in S}

VARIABLES
    model,          \* EmbeddingService._model is loaded
    initialized,    \* EmbeddingService._initialized
    index,          \* EmbeddingService._index: the vectors, in insertion order
    metadata,       \* EmbeddingService._metadata
    index_file,     \* faiss_index.bin on disk: <<>> absent, <<vectors>> present
    metadata_file,  \* metadata.pkl on disk: <<>> absent, <<entries>> present
    last_call,      \* the last completed call and its arguments
    ret_count,      \* the int returned by the last add_chunks / clear_loan
    results         \* the list returned by the last search

store_vars == <<model, initialized, index, metadata, index_file, metadata_file,
                last_call, ret_count, results>>

VARIABLES
    chunker,        \* which chunker runs: "document_processor" or "nlp"
    words,          \* words = text.split() of the text being chunked
    chunk_cfg,      \* the configured chunk size and overlap, in words
    start_idx,      \* start_idx of the chunking loop
    chunk_index,    \* chunk_index of the chunking loop
    chunks,         \* the chunks appended so far
    chunker_pc      \* "idle", "loop" (in the while loop) or "done" (returned)

chunker_vars == <<chunker, words, chunk_cfg, start_idx, chunk_index, chunks,
                  chunker_pc>>

VARIABLES
    scoring_call,   \* the rules or scoring call that has run, with its arguments
    scoring_result  \* what that call returned

scoring_vars == <<scoring_call, scoring_result>>

VARIABLES
    qa_pipeline,    \* RAGService._qa_pipeline is loaded
    generator,      \* RAGService._generator is loaded
    rag_pc,         \* where query stands: "idle", "qa", "generate" or "done"
    rag_call,       \* the arguments of the query in progress
    rag_results,    \* results: what embedding_service.search returned to query
    context,        \* context: the parts _build_context joined
    qa_out,         \* what the question-answering pipeline did inside _extract_with_qa
    qa_answer,      \* (qa_answer, qa_confidence) as _extract_with_qa returned them
    gen_out,        \* what the generator did inside _generate_answer
    gen_answer,     \* gen_answer as _generate_answer returned it
    rag_result,     \* what query returned, or that it raised
    store_raised    \* the last add_chunks raised instead of returning

rag_vars == <<qa_pipeline, generator, rag_pc, rag_call, rag_results, context,
              qa_out, qa_answer, gen_out, gen_answer, rag_result, store_raised>>

VARIABLES
    metrics_call,   \* the calculate_all_metrics call that has run, with its arguments
    metrics_result  \* what that call returned

metrics_vars == <<metrics_call, metrics_result>>

VARIABLES
    ingest_pc,      \* where run_ingestion stands: "idle", "loop" or "done"
    documents,      \* the documents of the loan, in the order of the query
    job_status,     \* job.status
    chunk_mapping,  \* FAISSIndex.chunk_mapping of the loan's index
    total_chunks,   \* total_chunks
    doc_i,          \* the position of the loop in documents
    ingest_raised,  \* run_ingestion raised to its caller
    index_ntotal,   \* FAISSIndex.index.ntotal of the loan's index
    index_path,     \* the loan's index file: <<>> when absent, else <<ntotal>>
    mapping_path,   \* the loan's mapping file: <<>> when absent, else <<mapping>>
    loaded_mapping, \* the chunk_mapping get_index loaded, before clear()
    chunks_created  \* job.chunks_created

ingest_vars == <<ingest_pc, documents, job_status, chunk_mapping, total_chunks,
                 doc_i, ingest_raised, index_ntotal, index_path, mapping_path,
                 loaded_mapping, chunks_created>>

VARIABLES
    handlers,       \* per request handler: the call it is in and its locals
    model_loads,    \* how often this process constructed the embedding model
    index_loads,    \* how often this process loaded or created the index
    calls,          \* how many calls the handlers have started
    crashes,        \* how often the process has stopped and started again
    added           \* per loan: the chunks whose add_chunks returned a count,
                    \* counted from the last clear_loan of that loan

conc_vars == <<handlers, model_loads, index_loads, calls, crashes, added>>

other_vars == <<rag_vars, metrics_vars, ingest_vars, conc_vars>>

\* what the steps of RAGService leave alone
rag_frame == <<chunker_vars, scoring_vars, metrics_vars, ingest_vars, conc_vars>>

\* what the metrics calculator leaves alone
metrics_frame == <<store_vars, chunker_vars, scoring_vars, rag_vars, ingest_vars, conc_vars>>

\* what run_ingestion leaves alone
ingest_frame == <<store_vars, chunker_vars, scoring_vars, rag_vars, metrics_vars, conc_vars>>

\* what the concurrent handlers leave alone
conc_frame == <<last_call, ret_count, results, chunker_vars, scoring_vars, rag_vars,
                metrics_vars, ingest_vars>>

vars == <<store_vars, chunker_vars, scoring_vars, other_vars>>

(***************************************************************************)
(* The embedding model and the inner-product index.                        *)
(***************************************************************************)
\* SentenceTransformer.encode(text, normalize_embeddings=True): a unit vector
\* (here of squared length 100) that depends on the text alone.
Embed(text) == IF text = "t1" THEN <<10, 0>> ELSE <<6, 8>>

\* The similarity of faiss.IndexFlatIP.
InnerProduct(u, v) == u[1] * v[1] + u[2] * v[2]

EncodeAll(texts) == [i \in 1..Len(texts) |-> Embed(texts[i])]

\* faiss search: every way to list the n best positions of idx for query vector
\* q by non-increasing score; the order among equal scores is the library's.
\* Positions that hold the same vector and whose metadata entries are equal
\* give search the same result, so of these only the first is listed.
RECURSIVE TopHits(_, _, _, _, _)
TopHits(idx, meta, cands, q, n) ==
    IF n = 0 \/ cands = {} THEN {<<>>}
    ELSE LET best == {i \in cands : \A j \in cands :
                         InnerProduct(idx[j], q) <= InnerProduct(idx[i], q)}
             first == {i \in best : \A j \in best :
                         j < i => \/ idx[j] # idx[i]
                                  \/ j > Len(meta) \/ i > Len(meta)
                                  \/ meta[j] # meta[i]}
         IN UNION {{<<i>> \o rest : rest \in TopHits(idx, meta, cands \ {i}, q, n - 1)}
                   : i \in first}

IndexSearch(idx, meta, q, n) == TopHits(idx, meta, 1..Len(idx), q, n)

Min(a, b) == IF a <= b THEN a ELSE b

(***************************************************************************)
(* EmbeddingService                                                        *)
(***************************************************************************)
\* a chunk handed to add_chunks: its text and the doc_type of its metadata
Chunk == {[text |-> "t1", doc_type |-> "report"],
          [text |-> "t2", doc_type |-> "policy"]}

ChunkLists == UNION {[1..n -> Chunk] : n \in 0..MaxChunks}

\* NewEntries with the last chunk's entry left out
NewEntriesShort(chunk_list, loan_id) ==
    [i \in 1..(Len(chunk_list) - 1) |->
        [loan_id |-> loan_id, text |-> chunk_list[i].text,
         doc_type |-> chunk_list[i].doc_type]]

\* the metadata entries add_chunks appends for chunk_list of loan_id
NewEntries(chunk_list, loan_id) ==
    [i \in 1..Len(chunk_list) |->
        [loan_id |-> loan_id, text |-> chunk_list[i].text,
         doc_type |-> chunk_list[i].doc_type]]

\* KeepIndices with the comparison inverted
KeepIndicesInverted(meta, loan_id) ==
    {i \in 1..Len(meta) : meta[i].loan_id = loan_id}

\* clear_loan: positions whose entry belongs to another loan
KeepIndices(meta, loan_id) ==
    {i \in 1..Len(meta) : meta[i].loan_id # loan_id}

\* the entries of meta at the positions of keep, in their order
RECURSIVE Select(_, _, _)
Select(meta, keep, i) ==
    IF i > Len(meta) THEN <<>>
    ELSE (IF i \in keep THEN <<meta[i]>> ELSE <<>>) \o Select(meta, keep, i + 1)

NewMetadata(meta, keep) == Select(meta, keep, 1)

TextsOf(meta) == [i \in 1..Len(meta) |-> meta[i].text]

\* FilteredOut without the loan filter
FilteredOutNoLoan(entry, loan_id, doc_type) ==
    doc_type # {} /\ entry.doc_type \notin doc_type

\* the filters of search: TRUE when the entry is skipped
FilteredOut(entry, loan_id, doc_type) ==
    \/ loan_id # {} /\ entry.loan_id \notin loan_id
    \/ doc_type # {} /\ entry.doc_type \notin doc_type

\* the result loop of search over the hits, from hit i on
RECURSIVE SearchLoop(_, _, _, _, _, _, _, _)
SearchLoop(hits, i, meta, idx, q, loan_id, doc_type, k) ==
    IF i > Len(hits) THEN <<>>
    ELSE IF hits[i] > Len(meta)
            \/ FilteredOut(meta[hits[i]], loan_id, doc_type)
         THEN SearchLoop(hits, i + 1, meta, idx, q, loan_id, doc_type, k)
         ELSE LET r == [loan_id |-> meta[hits[i]].loan_id,
                        text |-> meta[hits[i]].text,
                        doc_type |-> meta[hits[i]].doc_type,
                        score |-> InnerProduct(idx[hits[i]], q)]
              IN IF k <= 1 THEN <<r>>
                 ELSE <<r>> \o SearchLoop(hits, i + 1, meta, idx, q,
                                          loan_id, doc_type, k - 1)

\* how many vectors search asks the index for
SearchK(k, ntotal) == Min(k * 3, ntotal)

Call(op, loan_id, chunk_list, query, k, doc_type) ==
    [op |-> op, loan_id |-> loan_id, chunks |-> chunk_list, query |-> query,
     k |-> k, doc_type |-> doc_type]

\* no call is in progress: the service waits for the next request
NoCall == Call("none", {}, <<>>, "", 0, {})

\* _ensure_index on a process that has not initialised: load both files when
\* both exist, else start an empty index.
LoadedIndex ==
    IF initialized THEN index
    ELSE IF index_file # <<>> /\ metadata_file # <<>> THEN index_file[1] ELSE <<>>

LoadedMetadata ==
    IF initialized THEN metadata
    ELSE IF index_file # <<>> /\ metadata_file # <<>> THEN metadata_file[1] ELSE <<>>

\* _ensure_index loads the embedding model only when it creates a new index
ModelAfterEnsureIndex ==
    model \/ (~initialized /\ ~(index_file # <<>> /\ metadata_file # <<>>))

add_chunks(chunk_list, loan_id) ==
    /\ last_call.op = "none"
    /\ IF chunk_list = <<>>
       THEN /\ ret_count' = 0
            /\ UNCHANGED <<model, initialized, index, metadata, index_file,
                           metadata_file>>
       ELSE /\ model' = TRUE
            /\ initialized' = TRUE
            /\ index' = LoadedIndex \o EncodeAll(TextsOf(chunk_list))
            /\ metadata' = LoadedMetadata \o NewEntries(chunk_list, loan_id)
            /\ index_file' = <<index'>>
            /\ metadata_file' = <<metadata'>>
            /\ ret_count' = Len(chunk_list)
    /\ last_call' = Call("add_chunks", {loan_id}, chunk_list, "", 0, {})
    /\ results' = <<>>

clear_loan(loan_id) ==
    LET keep_indices == KeepIndices(LoadedMetadata, loan_id)
        removed_count == Len(LoadedMetadata) - Cardinality(keep_indices)
        new_metadata == NewMetadata(LoadedMetadata, keep_indices)
    IN /\ last_call.op = "none"
       /\ initialized' = TRUE
       /\ IF removed_count = 0
          THEN /\ index' = LoadedIndex
               /\ metadata' = LoadedMetadata
               /\ model' = ModelAfterEnsureIndex
               /\ UNCHANGED <<index_file, metadata_file>>
          ELSE /\ model' = TRUE
               /\ index' = EncodeAll(TextsOf(new_metadata))
               /\ metadata' = new_metadata
               /\ index_file' = <<index'>>
               /\ metadata_file' = <<metadata'>>
       /\ ret_count' = removed_count
       /\ last_call' = Call("clear_loan", {loan_id}, <<>>, "", 0, {})
       /\ results' = <<>>

search(query, loan_id, k, doc_type) ==
    /\ last_call.op = "none"
    /\ model' = TRUE
    /\ initialized' = TRUE
    /\ index' = LoadedIndex
    /\ metadata' = LoadedMetadata
    /\ UNCHANGED <<index_file, metadata_file>>
    /\ \E hits \in IndexSearch(LoadedIndex, LoadedMetadata, Embed(query),
                               SearchK(k, Len(LoadedIndex))) :
          results' = SearchLoop(hits, 1, LoadedMetadata, LoadedIndex,
                                Embed(query), loan_id, doc_type, k)
    /\ ret_count' = 0
    /\ last_call' = Call("search", loan_id, <<>>, query, k, doc_type)

InitStore ==
    /\ model = FALSE
    /\ initialized = FALSE
    /\ index = <<>>
    /\ metadata = <<>>
    /\ index_file = <<>>
    /\ metadata_file = <<>>
    /\ last_call = NoCall
    /\ ret_count = 0
    /\ results = <<>>

AddChunks ==
    \E chunk_list \in ChunkLists, loan_id \in Loans :
        /\ Len(LoadedIndex) + Len(chunk_list) <= MaxIndex
        /\ add_chunks(chunk_list, loan_id)

ClearLoan == \E loan_id \in Loans : clear_loan(loan_id)

Search ==
    \E query \in Texts, loan_id \in Optional(Loans), k \in 1..MaxK,
       doc_type \in Optional(DocTypes) : search(query, loan_id, k, doc_type)

\* The request handler that made the last call has taken its result; requests
\* are served one at a time (spec section 5: synchronous single-request
\* operations).
Return ==
    /\ last_call.op # "none"
    /\ last_call' = NoCall
    /\ ret_count' = 0
    /\ results' = <<>>
    /\ UNCHANGED <<model, initialized, index, metadata, index_file, metadata_file>>

(***************************************************************************)
(* The chunkers: DocumentProcessor._create_chunks and NLPService.chunk_text *)
(***************************************************************************)
TEXT_CHUNK_SIZE == 1000
TEXT_CHUNK_OVERLAP == 200
NLP_CHUNK_SIZE == 500
NLP_CHUNK_OVERLAP == 50

Chunkers == {"document_processor", "nlp"}

\* chunk sizes and overlaps, overlap < chunk size: the small ones and the two
\* the source configures
ChunkConfigs ==
    {[size |-> sz, overlap |-> ov] : sz \in 1..MaxChunkSize, ov \in 0..(MaxChunkSize - 1)}
    \cup {[size |-> TEXT_CHUNK_SIZE, overlap |-> TEXT_CHUNK_OVERLAP],
          [size |-> NLP_CHUNK_SIZE, overlap |-> NLP_CHUNK_OVERLAP]}

\* the word sequence 1, 2, ..., n: a text of n distinct words
Numbered(n) == [i \in 1..n |-> i]

\* texts of up to MaxWords words over two words, and longer texts of distinct
\* words around the configured sizes
ChunkerTexts ==
    UNION {[1..n -> {1, 2}] : n \in 0..MaxWords}
    \cup {Numbered(n) : n \in {499, 500, 501, 951, 999, 1000, 1001, 1200, 1801}}

\* end_idx = min(start_idx + chunk size, len(words))
EndIdx(start, size, n) == Min(start + size, n)

\* Slice that takes end_idx as inclusive
SliceInclusive(ws, start, end) == SubSeq(ws, start + 1, Min(end + 1, Len(ws)))

\* words[start_idx:end_idx], with Python's 0-based half-open slice
Slice(ws, start, end) == SubSeq(ws, start + 1, end)

\* NextStart that forgets the overlap
NextStartNoOverlap(end, overlap, n) == end

\* NextStart that steps back one word more than the overlap
NextStartBeyondOverlap(end, overlap, n) == IF end < n THEN end - overlap - 1 ELSE n

\* start_idx = end_idx - overlap if end_idx < len(words) else len(words)
NextStart(end, overlap, n) == IF end < n THEN end - overlap ELSE n

\* one iteration of the while loop of either chunker
ChunkLoopBody(which) ==
    /\ chunker_pc = "loop"
    /\ chunker = which
    /\ start_idx < Len(words)
    /\ LET end_idx == EndIdx(start_idx, chunk_cfg.size, Len(words))
       IN /\ chunks' = Append(chunks, [text |-> Slice(words, start_idx, end_idx),
                                       chunk_index |-> chunk_index])
          /\ start_idx' = NextStart(end_idx, chunk_cfg.overlap, Len(words))
    /\ chunk_index' = chunk_index + 1
    /\ UNCHANGED <<chunker, words, chunk_cfg, chunker_pc>>

\* the while condition fails: the chunker returns its chunks
ChunkLoopExit(which) ==
    /\ chunker_pc = "loop"
    /\ chunker = which
    /\ ~(start_idx < Len(words))
    /\ chunker_pc' = "done"
    /\ UNCHANGED <<chunker, words, chunk_cfg, start_idx, chunk_index, chunks>>

create_chunks_step == ChunkLoopBody("document_processor") /\ UNCHANGED <<store_vars, scoring_vars, other_vars>>

create_chunks_return == ChunkLoopExit("document_processor") /\ UNCHANGED <<store_vars, scoring_vars, other_vars>>

chunk_text_step == ChunkLoopBody("nlp") /\ UNCHANGED <<store_vars, scoring_vars, other_vars>>

chunk_text_return == ChunkLoopExit("nlp") /\ UNCHANGED <<store_vars, scoring_vars, other_vars>>

\* no chunker runs
InitChunkerIdle ==
    /\ chunker = "document_processor"
    /\ words = <<>>
    /\ chunk_cfg = [size |-> TEXT_CHUNK_SIZE, overlap |-> TEXT_CHUNK_OVERLAP]
    /\ start_idx = 0
    /\ chunk_index = 0
    /\ chunks = <<>>
    /\ chunker_pc = "idle"

\* a chunker is entered with a text, under a configuration with overlap smaller
\* than the chunk size
InitChunker ==
    /\ chunker \in Chunkers
    /\ words \in ChunkerTexts
    /\ chunk_cfg \in {c \in ChunkConfigs : c.overlap < c.size}
    /\ Len(words) > MaxWords =>
          chunk_cfg.size \in {TEXT_CHUNK_SIZE, NLP_CHUNK_SIZE}
    /\ start_idx = 0
    /\ chunk_index = 0
    /\ chunks = <<>>
    /\ chunker_pc = "loop"

(***************************************************************************)
(* GLPRulesEngine (app/services/glp_rules.py).                             *)
(*                                                                         *)
(* A text is a set of fragments: the string made of these fragments, in    *)
(* any order, separated by blanks.  The empty set is the empty string.     *)
(* A keyword occurs in a text exactly when it occurs in one of its         *)
(* fragments; KeywordsIn tabulates Python's `kw in s.lower()` for the      *)
(* fragments, sectors and locations of the model.                          *)
(***************************************************************************)
Fragments ==
    {"solar farm", "renewable energy wind farm", "coal power plant",
     "gas pipeline", "allocation tracking and annual report", "phase out"}

Sectors ==
    {"Information technology services", "Renewable energy",
     "Mining and quarrying"}

Locations == {"Berlin", "coastal area", "national park"}

green_keywords ==
    {"renewable", "solar", "wind", "hydro", "efficiency",
     "emission reduction", "clean", "sustainable", "recycling",
     "biodiversity", "conservation", "green", "low carbon",
     "electric vehicle", "public transport", "water treatment"}

red_flags ==
    {"fossil fuel expansion", "coal", "oil exploration",
     "mining without remediation", "deforestation"}

negative_indicators ==
    {"increased emissions", "coal", "fossil fuel expansion"}

positive_indicators ==
    {"emission reduction", "carbon neutral", "net zero", "renewable"}

resilience_indicators ==
    {"climate resilient", "flood protection", "drought resistant",
     "weather resilient", "climate risk assessment"}

vulnerability_indicators ==
    {"flood zone", "coastal area", "hurricane", "wildfire"}

water_intensive ==
    {"mining", "textile", "agriculture", "data center", "cooling"}

water_positive ==
    {"water recycling", "rainwater", "water efficiency",
     "water conservation"}

water_stressed ==
    {"desert", "arid", "drought", "water scarcity"}

linear_indicators ==
    {"single use", "disposable", "landfill"}

circular_indicators ==
    {"recycling", "reuse", "circular", "waste reduction", "recyclable"}

polluting_sectors ==
    {"chemical", "manufacturing", "mining", "oil", "refinery"}

pollution_control ==
    {"emission control", "pollution prevention", "air quality", "filter"}

sensitive_indicators ==
    {"protected area", "nature reserve", "national park", "wetland",
     "endangered species", "primary forest", "unesco"}

biodiversity_positive_indicators ==
    {"biodiversity", "habitat restoration", "conservation",
     "environmental impact assessment", "eia approved"}

transition_indicators ==
    {"transition", "phase out", "decommission", "renewable replacement",
     "electrification", "hydrogen transition"}

\* lower-cased, as assess_carbon_lockin compares them
CARBON_LOCKIN_INDICATORS ==
    {"fossil fuel", "coal", "oil drilling", "natural gas infrastructure",
     "carbon capture retrofit for fossil", "gas pipeline", "lng terminal"}

\* lower-cased, as assess_carbon_lockin compares them
HIGH_RISK_SECTORS ==
    {"fossil fuel utilities", "oil & gas", "mining and quarrying",
     "chemicals", "agriculture, forestry, and fishing",
     "transportation and storage", "construction materials",
     "heavy industry", "aviation"}

GLP_CATEGORIES ==
    {"Renewable Energy", "Energy Efficiency",
     "Pollution Prevention and Control",
     "Environmentally Sustainable Management of Living Natural Resources and Land Use",
     "Terrestrial and Aquatic Biodiversity Conservation",
     "Clean Transportation", "Sustainable Water and Wastewater Management",
     "Climate Change Adaptation",
     "Eco-efficient and/or Circular Economy Adapted Products",
     "Green Buildings"}

\* the categories of category_mapping, in the order the loop visits them
category_order ==
    <<"Renewable Energy", "Energy Efficiency", "Clean Transportation",
      "Green Buildings", "Sustainable Water and Wastewater Management",
      "Pollution Prevention and Control", "Climate Change Adaptation">>

category_mapping(category) ==
    CASE category = "Renewable Energy" ->
            {"wind turbine", "solar panel", "solar farm", "hydropower",
             "geothermal", "biomass", "renewable energy", "wind farm"}
      [] category = "Energy Efficiency" ->
            {"energy efficiency", "retrofit", "led lighting",
             "hvac upgrade", "smart meter", "building management",
             "insulation"}
      [] category = "Clean Transportation" ->
            {"electric vehicle", "ev charging", "public transit", "rail",
             "bicycle infrastructure", "hydrogen fuel",
             "fleet electrification"}
      [] category = "Green Buildings" ->
            {"green building", "leed certified", "breeam", "net zero",
             "sustainable construction", "eco-friendly building"}
      [] category = "Sustainable Water and Wastewater Management" ->
            {"water treatment", "desalination", "wastewater",
             "water recycling", "stormwater management", "water efficiency"}
      [] category = "Pollution Prevention and Control" ->
            {"emission control", "air quality", "pollution reduction",
             "waste management", "hazardous waste", "soil remediation"}
      [] category = "Climate Change Adaptation" ->
            {"flood defense", "climate resilience", "drought management",
             "coastal protection", "climate adaptation"}

\* the keywords of the lists above that occur in the lower-cased string s
KeywordsIn(s) ==
    CASE s = "solar farm" ->
            {"solar", "solar farm"}
      [] s = "renewable energy wind farm" ->
            {"renewable", "renewable energy", "wind", "wind farm"}
      [] s = "coal power plant" ->
            {"coal"}
      [] s = "gas pipeline" ->
            {"gas pipeline"}
      [] s = "allocation tracking and annual report" ->
            {"allocation", "annual report", "tracking"}
      [] s = "phase out" ->
            {"phase out"}
      [] s = "geothermal and biomass hydropower" ->
            {"biomass", "geothermal", "hydro", "hydropower"}
      [] s = "building retrofit with insulation" ->
            {"insulation", "retrofit"}
      [] s = "ev charging" ->
            {"ev charging"}
      [] s = "water treatment and desalination" ->
            {"desalination", "water treatment"}
      [] s = "Information technology services" ->
            {}
      [] s = "Renewable energy" ->
            {"renewable", "renewable energy"}
      [] s = "Mining and quarrying" ->
            {"mining", "mining and quarrying"}
      [] s = "Berlin" ->
            {}
      [] s = "coastal area" ->
            {"coastal area"}
      [] s = "national park" ->
            {"national park"}
      [] OTHER -> {}

\* [kw for kw in keywords if kw in text], as a set
Matches(keywords, text) ==
    keywords \cap UNION {KeywordsIn(s) : s \in text}

\* any(kw in text for kw in keywords)
AnyIn(keywords, text) == Matches(keywords, text) # {}

\* f"{use_of_proceeds} {extracted_text}".lower()
CombinedText(project_data, extracted_text) ==
    project_data.use_of_proceeds \cup extracted_text

RECURSIVE BestCategoryFirstHit(_, _, _, _)
\* BestCategory keeping the first category that has a hit
BestCategoryFirstHit(i, best_category, best_score, text) ==
    IF i > Len(category_order)
    THEN [category |-> best_category, confidence |-> best_score]
    ELSE LET category == category_order[i]
             matches == Cardinality(Matches(category_mapping(category), text))
             score == Min(95, 50 + matches * 15)
         IN  IF matches > 0 /\ best_score = 0
             THEN BestCategoryFirstHit(i + 1, category, score, text)
             ELSE BestCategoryFirstHit(i + 1, best_category, best_score, text)

RECURSIVE BestCategory(_, _, _, _)
\* the loop over category_mapping.items(); scores are in hundredths
BestCategory(i, best_category, best_score, text) ==
    IF i > Len(category_order)
    THEN [category |-> best_category, confidence |-> best_score]
    ELSE LET category == category_order[i]
             matches == Cardinality(Matches(category_mapping(category), text))
             score == Min(95, 50 + matches * 15)
         IN  IF matches > 0 /\ score > best_score
             THEN BestCategory(i + 1, category, score, text)
             ELSE BestCategory(i + 1, best_category, best_score, text)

map_to_glp_category(use_of_proceeds, sector) ==
    BestCategory(1, "Unknown", 0, use_of_proceeds \cup {sector})

generate_uop_assessment(is_valid, red_matches) ==
    IF is_valid THEN "qualifies"
    ELSE IF red_matches # {} THEN "does not qualify due to red flags"
    ELSE "insufficient evidence"

validate_use_of_proceeds(use_of_proceeds, sector) ==
    LET green_matches == Matches(green_keywords, use_of_proceeds)
        red_matches == Matches(red_flags, use_of_proceeds)
        is_valid == green_matches # {} /\ red_matches = {}
        mapped == map_to_glp_category(use_of_proceeds, sector)
    IN  [is_valid |-> is_valid,
         glp_category |-> mapped.category,
         confidence |-> mapped.confidence,
         green_indicators |-> green_matches,
         red_flags |-> red_matches,
         assessment |-> generate_uop_assessment(is_valid, red_matches)]

check_climate_mitigation_positive_first(text) ==
    LET has_negative == AnyIn(negative_indicators, text)
        has_positive == AnyIn(positive_indicators, text)
    IN  IF has_positive THEN "pass"
        ELSE IF has_negative THEN "fail"
        ELSE "unclear"

check_climate_mitigation(text) ==
    LET has_negative == AnyIn(negative_indicators, text)
        has_positive == AnyIn(positive_indicators, text)
    IN  IF has_negative THEN "fail"
        ELSE IF has_positive THEN "pass"
        ELSE "unclear"

check_climate_adaptation(text, location) ==
    LET has_resilience == AnyIn(resilience_indicators, text)
        has_vulnerability ==
            AnyIn(vulnerability_indicators, {location} \cup text)
    IN  IF has_vulnerability /\ ~has_resilience THEN "unclear"
        ELSE "pass"

check_water_use(text, sector, location) ==
    LET is_intensive == AnyIn(water_intensive, {sector} \cup text)
        has_mitigation == AnyIn(water_positive, text)
        in_stressed_area == AnyIn(water_stressed, {location} \cup text)
    IN  IF is_intensive /\ in_stressed_area /\ ~has_mitigation THEN "fail"
        ELSE IF is_intensive /\ ~has_mitigation THEN "unclear"
        ELSE "pass"

check_circular_economy(text) ==
    LET has_linear == AnyIn(linear_indicators, text)
        has_circular == AnyIn(circular_indicators, text)
    IN  IF has_linear /\ ~has_circular THEN "fail" ELSE "pass"

check_pollution(text, sector) ==
    LET is_polluting_sector == AnyIn(polluting_sectors, {sector})
        has_controls == AnyIn(pollution_control, text)
    IN  IF is_polluting_sector /\ ~has_controls THEN "unclear" ELSE "pass"

check_biodiversity(text, location) ==
    LET in_sensitive_area == AnyIn(sensitive_indicators, {location} \cup text)
        has_protection == AnyIn(biodiversity_positive_indicators, text)
    IN  IF in_sensitive_area /\ ~has_protection THEN "fail" ELSE "pass"

\* the status of each of the six criteria
assess_dnsh(project_data, extracted_text) ==
    LET combined_text == CombinedText(project_data, extracted_text)
        location == project_data.location
        sector == project_data.sector
    IN  [climate_mitigation |-> check_climate_mitigation(combined_text),
         climate_adaptation |->
             check_climate_adaptation(combined_text, location),
         water_use |-> check_water_use(combined_text, sector, location),
         circular_economy |-> check_circular_economy(combined_text),
         pollution |-> check_pollution(combined_text, sector),
         biodiversity |-> check_biodiversity(combined_text, location)]

CountStatus(dnsh_results, status) ==
    Cardinality({c \in DOMAIN dnsh_results : dnsh_results[c] = status})

get_dnsh_summary(dnsh_results) ==
    LET failed == CountStatus(dnsh_results, "fail")
    IN  [overall_pass |-> failed = 0,
         passed_count |-> CountStatus(dnsh_results, "pass"),
         failed_count |-> failed,
         unclear_count |-> CountStatus(dnsh_results, "unclear"),
         results |-> dnsh_results]

IsHighRiskSectorInverted(sector) == ~AnyIn(HIGH_RISK_SECTORS, {sector})

\* any(s.lower() in sector for s in self.high_risk_sectors)
IsHighRiskSector(sector) == AnyIn(HIGH_RISK_SECTORS, {sector})

\* assess_carbon_lockin with transition-plan language lowering MEDIUM to LOW
assess_carbon_lockin_plan_lowers(project_data, extracted_text) ==
    LET combined_text == CombinedText(project_data, extracted_text)
        indicators_found == Matches(CARBON_LOCKIN_INDICATORS, combined_text)
        is_high_risk_sector == IsHighRiskSector(project_data.sector)
        has_transition_plan == AnyIn(transition_indicators, combined_text)
    IN  IF \/ Cardinality(indicators_found) >= 2
           \/ (indicators_found # {} /\ is_high_risk_sector)
        THEN [risk_level |-> "high",
              indicators_found |-> indicators_found,
              assessment |-> "high risk",
              recommendation |-> "alternative or transition plan"]
        ELSE IF (indicators_found # {} \/ is_high_risk_sector) /\ ~has_transition_plan
        THEN [risk_level |-> "medium",
              indicators_found |-> indicators_found,
              assessment |-> "moderate risk",
              recommendation |-> "transition strategy"]
        ELSE [risk_level |-> "low",
              indicators_found |-> indicators_found,
              assessment |-> "low risk",
              recommendation |-> "standard monitoring"]

assess_carbon_lockin(project_data, extracted_text) ==
    LET combined_text == CombinedText(project_data, extracted_text)
        indicators_found == Matches(CARBON_LOCKIN_INDICATORS, combined_text)
        is_high_risk_sector == IsHighRiskSector(project_data.sector)
        has_transition_plan == AnyIn(transition_indicators, combined_text)
    IN  IF \/ Cardinality(indicators_found) >= 2
           \/ (indicators_found # {} /\ is_high_risk_sector)
        THEN [risk_level |-> "high",
              indicators_found |-> indicators_found,
              assessment |-> "high risk",
              recommendation |-> "alternative or transition plan"]
        ELSE IF indicators_found # {} \/ is_high_risk_sector
        THEN [risk_level |-> "medium",
              indicators_found |-> indicators_found,
              assessment |-> IF has_transition_plan
                             THEN "moderate risk with transition elements"
                             ELSE "moderate risk",
              recommendation |-> IF has_transition_plan
                                 THEN "transition timeline"
                                 ELSE "transition strategy"]
        ELSE [risk_level |-> "low",
              indicators_found |-> indicators_found,
              assessment |-> "low risk",
              recommendation |-> "standard monitoring"]

IsEligibleIgnoringDnsh(uop_valid, dnsh_overall_pass, risk_level) ==
    uop_valid /\ risk_level # "high"

IsEligibleIgnoringLockin(uop_valid, dnsh_overall_pass, risk_level) ==
    uop_valid /\ dnsh_overall_pass

IsEligible(uop_valid, dnsh_overall_pass, risk_level) ==
    uop_valid /\ dnsh_overall_pass /\ risk_level # "high"

\* issues and recommendations are the lists of what the code appends
assess_glp_eligibility(project_data, extracted_text) ==
    LET uop_result == validate_use_of_proceeds(project_data.use_of_proceeds,
                                               project_data.sector)
        dnsh_results == assess_dnsh(project_data, extracted_text)
        dnsh_summary == get_dnsh_summary(dnsh_results)
        lockin_result == assess_carbon_lockin(project_data, extracted_text)
        is_eligible == IsEligible(uop_result.is_valid,
                                  dnsh_summary.overall_pass,
                                  lockin_result.risk_level)
        issues ==
            (IF ~uop_result.is_valid
             THEN <<uop_result.assessment>> ELSE <<>>)
            \o (IF uop_result.red_flags # {}
                THEN <<"red flags">> ELSE <<>>)
            \o (IF ~dnsh_summary.overall_pass
                THEN <<"dnsh criteria failed">> ELSE <<>>)
            \o (IF lockin_result.risk_level = "high"
                THEN <<lockin_result.assessment>> ELSE <<>>)
        recommendations ==
            (IF dnsh_summary.unclear_count > 0
             THEN <<"document unclear dnsh criteria">> ELSE <<>>)
            \o (IF lockin_result.risk_level \in {"high", "medium"}
                THEN <<lockin_result.recommendation>> ELSE <<>>)
            \o (IF is_eligible
                THEN <<"standard documentation", "annual reporting">>
                ELSE <<>>)
    IN  [is_eligible |-> is_eligible,
         category |-> uop_result.glp_category,
         confidence |-> uop_result.confidence,
         use_of_proceeds_valid |-> uop_result.is_valid,
         dnsh_pass |-> dnsh_summary.overall_pass,
         carbon_lockin_risk |-> lockin_result.risk_level,
         issues |-> issues,
         recommendations |-> recommendations]

(***************************************************************************)
(* ESGScoringEngine (app/services/scoring.py).                             *)
(*                                                                         *)
(* Scores are exact: a sub-score or a total is a whole number of           *)
(* 1/Scale points, a confidence is a whole number of hundredths, and the   *)
(* values round(x, 1) returns are whole numbers of tenths.                 *)
(***************************************************************************)
Scale == 60

Max(a, b) == IF a > b THEN a ELSE b

REQUIRED_FIELDS ==
    {"org_name", "project_name", "amount_requested", "currency",
     "planned_start_date", "shareholder_entities"}

\* project_data.fields holds the required fields whose value is present
\* (not None, not '' and not 0)
calculate_completeness_score(project_data) ==
    LET present_count ==
            Cardinality({field \in REQUIRED_FIELDS :
                            field \in project_data.fields})
        score == (present_count * 100 * Scale)
                     \div Cardinality(REQUIRED_FIELDS)
    IN  IF project_data.document_count > 0
        THEN Min(100 * Scale, score + 10 * Scale)
        ELSE score

\* claims is the list of the claims' confidences
calculate_verifiability_score(claims) ==
    IF claims = <<>>
    THEN 50 * Scale
    ELSE LET verified ==
                 Cardinality({i \in DOMAIN claims : claims[i] >= 60})
         IN  (verified * 100 * Scale) \div Len(claims)

\* calculate_glp_alignment_score without the confidence scaling its terms
calculate_glp_alignment_score_unscaled(project_data, extracted_text) ==
    LET eligibility == assess_glp_eligibility(project_data, extracted_text)
        mop_text == CombinedText(project_data, extracted_text)
        score ==
            (IF eligibility.is_eligible THEN 40 * Scale ELSE 10 * Scale)
            + (IF eligibility.category \in GLP_CATEGORIES THEN 20 * Scale ELSE 0)
            + (IF AnyIn({"tracking", "allocation"}, mop_text)
               THEN 20 * Scale ELSE 0)
            + (IF AnyIn({"annual report", "disclosure"}, mop_text)
               THEN 20 * Scale ELSE 0)
    IN  Min(100 * Scale, score)

calculate_glp_alignment_score(project_data, extracted_text) ==
    LET eligibility == assess_glp_eligibility(project_data, extracted_text)
        mop_text == CombinedText(project_data, extracted_text)
        score ==
            (IF eligibility.is_eligible
             THEN (40 * eligibility.confidence * Scale) \div 100
             ELSE 10 * Scale)
            + (IF eligibility.category \in GLP_CATEGORIES
               THEN (20 * eligibility.confidence * Scale) \div 100
               ELSE 0)
            + (IF AnyIn({"tracking", "allocation"}, mop_text)
               THEN 20 * Scale ELSE 0)
            + (IF AnyIn({"annual report", "disclosure"}, mop_text)
               THEN 20 * Scale ELSE 0)
    IN  Min(100 * Scale, score)

\* in points
calculate_dnsh_penalty(project_data, extracted_text) ==
    LET summary == get_dnsh_summary(assess_dnsh(project_data, extracted_text))
    IN  IF ~summary.overall_pass THEN 30 ELSE summary.unclear_count * 5

\* the pair calculate_dnsh_penalty returns
dnsh_penalty_and_summary(project_data, extracted_text) ==
    [penalty |-> calculate_dnsh_penalty(project_data, extracted_text),
     summary |->
         get_dnsh_summary(assess_dnsh(project_data, extracted_text))]

\* in points
calculate_carbon_penalty(project_data, extracted_text) ==
    LET result == assess_carbon_lockin(project_data, extracted_text)
    IN  CASE result.risk_level = "high" -> 20
          [] result.risk_level = "medium" -> 10
          [] result.risk_level = "low" -> 0

\* round(x, 1) of x/Scale points, in tenths: ties go to the even tenth
Round1(x) ==
    LET unit == Scale \div 10
        q == x \div unit
        r == x % unit
    IN  IF 2 * r < unit THEN q
        ELSE IF 2 * r > unit THEN q + 1
        ELSE IF q % 2 = 0 THEN q ELSE q + 1

UnclampedTotal(raw) == raw

\* max(0, min(100, raw))
ClampTotal(raw) == Max(0, Min(100 * Scale, raw))

Grade(total) ==
    IF total >= 90 * Scale THEN "A+"
    ELSE IF total >= 80 * Scale THEN "A"
    ELSE IF total >= 70 * Scale THEN "B"
    ELSE IF total >= 60 * Scale THEN "C"
    ELSE IF total >= 50 * Scale THEN "D"
    ELSE "F"

WeightedSumPenaltiesAdded(comp, verif, glp, dnsh_p, carbon_p) ==
    (comp * 20) \div 100 + (verif * 25) \div 100 + (glp * 25) \div 100
        + dnsh_p * Scale + carbon_p * Scale

\* the weighted sum before the clamp
WeightedSum(comp, verif, glp, dnsh_p, carbon_p) ==
    (comp * 20) \div 100 + (verif * 25) \div 100 + (glp * 25) \div 100
        - dnsh_p * Scale - carbon_p * Scale

\* the ESGScore built from the five components
ComposeScore(comp, verif, glp, dnsh_p, carbon_p) ==
    LET total == ClampTotal(WeightedSum(comp, verif, glp, dnsh_p, carbon_p))
        recs ==
            (IF comp < 80 * Scale
             THEN <<"Improve data completeness">> ELSE <<>>)
            \o (IF verif < 60 * Scale
                THEN <<"Upload supporting documents">> ELSE <<>>)
            \o (IF dnsh_p > 0 THEN <<"Address DNSH concerns">> ELSE <<>>)
    IN  [total_score |-> Round1(total),
         completeness_score |-> Round1(comp),
         verifiability_score |-> Round1(verif),
         glp_alignment_score |-> Round1(glp),
         dnsh_penalty |-> dnsh_p,
         carbon_penalty |-> carbon_p,
         grade |-> Grade(total),
         recommendations |->
             IF recs # <<>> THEN recs ELSE <<"Strong ESG profile">>]

calculate_composite_score(project_data, claims, extracted_text) ==
    ComposeScore(calculate_completeness_score(project_data),
                 calculate_verifiability_score(claims),
                 calculate_glp_alignment_score(project_data, extracted_text),
                 calculate_dnsh_penalty(project_data, extracted_text),
                 calculate_carbon_penalty(project_data, extracted_text))

(***************************************************************************)
(* Calls of the rules engine and of the scoring engine.                    *)
(***************************************************************************)
\* use_of_proceeds and extracted_text of a call
TextPairs ==
    {p \in (SUBSET Fragments) \X (SUBSET Fragments) :
        Cardinality(p[1]) + Cardinality(p[2]) <= MaxPhrases}

\* the required fields that are present in a payload
FieldSets ==
    {{}, {"org_name"}, {"org_name", "project_name", "amount_requested"},
     REQUIRED_FIELDS}

Confidences == {50, 60}

RECURSIVE ClaimLists(_)
ClaimLists(n) ==
    IF n = 0 THEN {<<>>}
    ELSE ClaimLists(n - 1)
         \cup {Append(cs, c) : cs \in {l \in ClaimLists(n - 1) : Len(l) = n - 1},
                               c \in Confidences}

\* the claims lists of a call
Claims == ClaimLists(MaxClaims)

ProjectData(use_of_proceeds, sector, location, fields, document_count) ==
    [use_of_proceeds |-> use_of_proceeds, sector |-> sector,
     location |-> location, fields |-> fields,
     document_count |-> document_count]

ScoringCall(op, project_data, claims, extracted_text) ==
    [op |-> op, project_data |-> project_data, claims |-> claims,
     extracted_text |-> extracted_text]

NoScoringCall ==
    ScoringCall("none", ProjectData({}, "Information technology services",
                                    "Berlin", {}, 0), <<>>, {})

NoScoringResult == [none |-> TRUE]

AssessCarbonLockin ==
    /\ scoring_call.op = "none"
    /\ \E p \in TextPairs, sector \in Sectors :
         LET project_data == ProjectData(p[1], sector, "Berlin", {}, 0)
         IN  /\ scoring_call' = ScoringCall("assess_carbon_lockin",
                                            project_data, <<>>, p[2])
             /\ scoring_result' = assess_carbon_lockin(project_data, p[2])

AssessGlpEligibility ==
    /\ scoring_call.op = "none"
    /\ \E p \in TextPairs, sector \in Sectors, location \in Locations :
         LET project_data == ProjectData(p[1], sector, location, {}, 0)
         IN  /\ scoring_call' = ScoringCall("assess_glp_eligibility",
                                            project_data, <<>>, p[2])
             /\ scoring_result' = assess_glp_eligibility(project_data, p[2])

CalculateDnshPenalty ==
    /\ scoring_call.op = "none"
    /\ \E p \in TextPairs, sector \in Sectors, location \in Locations :
         LET project_data == ProjectData(p[1], sector, location, {}, 0)
         IN  /\ scoring_call' = ScoringCall("calculate_dnsh_penalty",
                                            project_data, <<>>, p[2])
             /\ scoring_result' =
                    dnsh_penalty_and_summary(project_data, p[2])

CalculateCompositeScore ==
    /\ scoring_call.op = "none"
    /\ \E p \in TextPairs, sector \in Sectors, location \in Locations,
          fields \in FieldSets, document_count \in {0, 1},
          claims \in Claims :
         LET project_data ==
                 ProjectData(p[1], sector, location, fields, document_count)
         IN  /\ scoring_call' = ScoringCall("calculate_composite_score",
                                            project_data, claims, p[2])
             /\ scoring_result' =
                    calculate_composite_score(project_data, claims, p[2])

\* largest number of fragments in the use_of_proceeds of a category mapping
MaxCategoryPhrases == 3

\* fragments with keywords of four of the categories
CategoryFragments ==
    {"solar farm", "renewable energy wind farm",
     "geothermal and biomass hydropower", "building retrofit with insulation",
     "ev charging", "water treatment and desalination"}

CategoryTexts == {t \in SUBSET CategoryFragments : Cardinality(t) <= MaxCategoryPhrases}

ValidateUseOfProceeds ==
    /\ scoring_call.op = "none"
    /\ \E use_of_proceeds \in CategoryTexts, sector \in Sectors :
         LET project_data == ProjectData(use_of_proceeds, sector, "Berlin", {}, 0)
         IN  /\ scoring_call' = ScoringCall("validate_use_of_proceeds",
                                            project_data, <<>>, {})
             /\ scoring_result' = validate_use_of_proceeds(use_of_proceeds, sector)

\* largest number of fragments in the texts of a green project
MaxGreenPhrases == 3

\* fragments of a project that scores high: green keywords, category
\* keywords and the keywords of the management of proceeds and of reporting
GreenFragments ==
    {"solar farm", "renewable energy wind farm",
     "geothermal and biomass hydropower",
     "allocation tracking and annual report"}

\* use_of_proceeds and extracted_text of a green project
GreenTextPairs ==
    {p \in (SUBSET GreenFragments) \X (SUBSET GreenFragments) :
        Cardinality(p[1]) + Cardinality(p[2]) <= MaxGreenPhrases}

\* calculate_composite_score for a green project
ScoreGreenProject ==
    /\ scoring_call.op = "none"
    /\ \E p \in GreenTextPairs, sector \in Sectors, location \in Locations,
          fields \in FieldSets, document_count \in {0, 1},
          claims \in Claims :
         LET project_data ==
                 ProjectData(p[1], sector, location, fields, document_count)
         IN  /\ scoring_call' = ScoringCall("calculate_composite_score",
                                            project_data, claims, p[2])
             /\ scoring_result' =
                    calculate_composite_score(project_data, claims, p[2])

\* the caller has taken the result
ReturnScoring ==
    /\ scoring_call.op # "none"
    /\ scoring_call' = NoScoringCall
    /\ scoring_result' = NoScoringResult

InitScoring ==
    /\ scoring_call = NoScoringCall
    /\ scoring_result = NoScoringResult

(***************************************************************************)
(* RAGService: retrieval, extractive pass, generative pass.                *)
(***************************************************************************)
\* largest number of vectors in the index while queries are answered
MaxRagIndex == 2

FAISS_TOP_K == 6

\* max_length of _build_context, in characters
MaxContextLength == 3000

\* chunk texts of the query scenarios: two texts with content and a blank one
RagChunk == {[text |-> "t1", doc_type |-> "report"],
             [text |-> "t2", doc_type |-> "report"],
             [text |-> "  ", doc_type |-> "report"]}

RagChunkLists == {<<c>> : c \in RagChunk}

\* str.strip() of the texts and answers in use
Strip(text) == IF text = "  " THEN "" ELSE text

\* len(text) of the stripped chunk texts
TextLength(text) ==
    CASE text = "t1" -> 1800
      [] text = "t2" -> 1100
      [] OTHER -> 0

\* _build_context from result i on, total_length characters being used
RECURSIVE BuildContext(_, _, _)
BuildContext(res, i, total_length) ==
    IF i > Len(res) THEN <<>>
    ELSE LET text == Strip(res[i].text)
             remaining == MaxContextLength - total_length
         IN IF text = "" THEN BuildContext(res, i + 1, total_length)
            ELSE IF total_length + TextLength(text) > MaxContextLength
                 THEN IF remaining > 200
                      THEN <<[text |-> text, chars |-> remaining]>>
                      ELSE <<>>
                 ELSE <<[text |-> text, chars |-> TextLength(text)]>>
                      \o BuildContext(res, i + 1, total_length + TextLength(text))

build_context(res) == BuildContext(res, 1, 0)

\* round(score, 3) of an inner product held in hundredths, in thousandths
Round3(score) == score * 10

\* _format_sources: the first three results
format_sources(res) ==
    [i \in 1..Min(3, Len(res)) |->
        [text_snippet |-> res[i].text, score |-> Round3(res[i].score)]]

\* answers the question-answering pipeline gives, before strip()
QaTexts == {"", "(iv)", "Net zero by 2040"}
\* its scores, in hundredths
QaScores == {50, 55, 60, 65}
\* texts the generator produces
GenTexts == {"Net zero by 2040", "Not found", "Answer: not found.", "(iv)"}

\* _is_valid_answer on the answers in use
is_valid_answer(answer) ==
    answer \in {"Net zero by 2040", "Not found", "not found.", "Answer: not found."}

\* answer[7:].strip() when answer.lower() starts with "answer:"
StripAnswerPrefix(answer) ==
    IF answer = "Answer: not found." THEN "not found." ELSE answer

\* str.lower()
Lower(answer) ==
    CASE answer = "Net zero by 2040" -> "net zero by 2040"
      [] answer = "Not found" -> "not found"
      [] OTHER -> answer

NotFoundSynonyms == {"not found", "not found.", "unknown", "just not found"}

RagOut(kind, answer, score) == [kind |-> kind, answer |-> answer, score |-> score]
NoOut == RagOut("none", "", 0)

\* the outcomes of a lazily loaded model's use: the load fails (only when it
\* is not loaded yet), the inference raises, or it gives an output
QaOuts ==
    {RagOut("load_failed", "", 0), RagOut("error", "", 0)}
    \cup {RagOut("answer", a, s) : a \in QaTexts, s \in QaScores}

GenOuts ==
    {RagOut("load_failed", "", 0), RagOut("error", "", 0)}
    \cup {RagOut("answer", a, 0) : a \in GenTexts}

QaReturn(answer, confidence) == [answer |-> answer, confidence |-> confidence]

\* _extract_with_qa: (answer, score) or (None, 0); every exception, the one of
\* _ensure_qa_pipeline included, ends in (None, 0)
extract_with_qa(out) ==
    IF out.kind = "answer" /\ out.score > 50 /\ is_valid_answer(Strip(out.answer))
    THEN QaReturn({Strip(out.answer)}, out.score)
    ELSE QaReturn({}, 0)

\* _generate_answer: the cleaned answer or None; every exception ends in None
generate_answer(out) ==
    IF out.kind = "answer" /\ is_valid_answer(StripAnswerPrefix(Strip(out.answer)))
    THEN {StripAnswerPrefix(Strip(out.answer))}
    ELSE {}

\* qa_accepted with the score compared by >=
qa_accepted_from_threshold(qa) == qa.answer # {} /\ qa.answer # {""} /\ qa.confidence >= 60

\* query, line 210: qa_answer and qa_confidence > 0.6
qa_accepted(qa) == qa.answer # {} /\ qa.answer # {""} /\ qa.confidence > 60

\* gen_accepted without the list of "not found" answers
gen_accepted_any(gen) == gen # {} /\ gen # {""}

\* query, line 221: gen_answer and gen_answer.lower() not in [...]
gen_accepted(gen) ==
    gen # {} /\ gen # {""} /\ \A a \in gen : Lower(a) \notin NotFoundSynonyms

RagResult(raised, answer, confidence, sources, site) ==
    [raised |-> raised, answer |-> answer, confidence |-> confidence,
     sources |-> sources, site |-> site]

NoRagResult == RagResult(FALSE, "", 0, <<>>, "none")

\* query raised: the exception of search went through
Raised == RagResult(TRUE, "", 0, <<>>, "raise")

RagCall(question, loan_id) == [question |-> question, loan_id |-> loan_id]
NoRagCall == RagCall("", 0)

\* the value of an Optional that is not None
AnswerOf(opt) == CHOOSE a \in opt : TRUE

\* query, lines 189-205: the two returns that precede the extraction
query_after_search(res, ctx) ==
    IF res = <<>>
    THEN RagResult(FALSE, "No documents indexed for this loan.", 0, <<>>, "no_documents")
    ELSE IF ctx = <<>>
         THEN RagResult(FALSE, "No relevant content found in documents.", 0, <<>>, "no_context")
         ELSE NoRagResult

\* query, lines 221-243: the returns that follow the generative pass
query_after_generation(qa, gen, res) ==
    IF gen_accepted(gen)
    THEN RagResult(FALSE, AnswerOf(gen), 70, format_sources(res), "generative")
    ELSE IF qa.answer # {} /\ qa.answer # {""}
         THEN RagResult(FALSE, AnswerOf(qa.answer), qa.confidence,
                        format_sources(res), "last_resort")
         ELSE RagResult(FALSE, "Could not extract a clear answer from the documents.",
                        0, format_sources(res), "no_answer")

\* query up to the extractive pass: search, the two early returns, the context
Query(question, loan_id) ==
    /\ rag_pc = "idle"
    /\ search(question, {loan_id}, FAISS_TOP_K, {})
    /\ rag_call' = RagCall(question, loan_id)
    /\ rag_results' = results'
    /\ context' = build_context(results')
    /\ rag_result' = query_after_search(results', context')
    /\ rag_pc' = IF rag_result' = NoRagResult THEN "qa" ELSE "done"
    /\ UNCHANGED <<qa_pipeline, generator, qa_out, qa_answer, gen_out, gen_answer,
                   store_raised>>

\* _ensure_model or _ensure_index raises inside search: nothing in query
\* catches it
QueryRaises(question, loan_id) ==
    /\ rag_pc = "idle"
    /\ last_call.op = "none"
    /\ \/ ~model /\ model' = FALSE
       \/ ~initialized /\ model' = TRUE
    /\ last_call' = Call("search", {loan_id}, <<>>, question, FAISS_TOP_K, {})
    /\ rag_call' = RagCall(question, loan_id)
    /\ rag_result' = Raised
    /\ rag_pc' = "done"
    /\ UNCHANGED <<initialized, index, metadata, index_file, metadata_file,
                   ret_count, results>>
    /\ UNCHANGED <<qa_pipeline, generator, rag_results, context, qa_out,
                   qa_answer, gen_out, gen_answer, store_raised>>

\* query, lines 208-216: the extractive pass and the return of its answer
ExtractWithQa ==
    /\ rag_pc = "qa"
    /\ \E out \in QaOuts :
          /\ out.kind = "load_failed" => ~qa_pipeline
          /\ qa_pipeline' = (qa_pipeline \/ out.kind # "load_failed")
          /\ qa_out' = out
          /\ qa_answer' = extract_with_qa(out)
    /\ IF qa_accepted(qa_answer')
       THEN /\ rag_result' = RagResult(FALSE, AnswerOf(qa_answer'.answer),
                                       qa_answer'.confidence,
                                       format_sources(rag_results), "extractive")
            /\ rag_pc' = "done"
       ELSE /\ rag_result' = rag_result
            /\ rag_pc' = "generate"
    /\ UNCHANGED <<generator, rag_call, rag_results, context, gen_out, gen_answer,
                   store_raised>>
    /\ UNCHANGED store_vars

\* query, lines 219-243: the generative pass and the three last returns
GenerateAnswer ==
    /\ rag_pc = "generate"
    /\ \E out \in GenOuts :
          /\ out.kind = "load_failed" => ~generator
          /\ generator' = (generator \/ out.kind # "load_failed")
          /\ gen_out' = out
          /\ gen_answer' = generate_answer(out)
    /\ rag_result' = query_after_generation(qa_answer, gen_answer', rag_results)
    /\ rag_pc' = "done"
    /\ UNCHANGED <<qa_pipeline, rag_call, rag_results, context, qa_out, qa_answer,
                   store_raised>>
    /\ UNCHANGED store_vars

\* the caller of query has taken its result, or its exception
QueryReturn ==
    /\ rag_pc = "done"
    /\ rag_pc' = "idle"
    /\ rag_call' = NoRagCall
    /\ rag_results' = <<>>
    /\ context' = <<>>
    /\ qa_out' = NoOut
    /\ qa_answer' = QaReturn({}, 0)
    /\ gen_out' = NoOut
    /\ gen_answer' = {}
    /\ rag_result' = NoRagResult
    /\ last_call' = NoCall
    /\ ret_count' = 0
    /\ results' = <<>>
    /\ UNCHANGED <<model, initialized, index, metadata, index_file, metadata_file>>
    /\ UNCHANGED <<qa_pipeline, generator, store_raised>>

\* add_chunks with a document's chunk while no query runs
RagAddChunks ==
    /\ rag_pc = "idle"
    /\ Len(LoadedIndex) < MaxRagIndex
    /\ \E chunk_list \in RagChunkLists, loan_id \in Loans :
          add_chunks(chunk_list, loan_id)
    /\ UNCHANGED rag_vars

\* add_chunks when _ensure_model or _ensure_index raises
RagAddChunksRaises ==
    /\ rag_pc = "idle"
    /\ last_call.op = "none"
    /\ \/ ~model /\ model' = FALSE
       \/ ~initialized /\ model' = TRUE
    /\ \E chunk_list \in RagChunkLists, loan_id \in Loans :
          last_call' = Call("add_chunks", {loan_id}, chunk_list, "", 0, {})
    /\ store_raised' = TRUE
    /\ UNCHANGED <<initialized, index, metadata, index_file, metadata_file,
                   ret_count, results>>
    /\ UNCHANGED <<qa_pipeline, generator, rag_pc, rag_call, rag_results, context,
                   qa_out, qa_answer, gen_out, gen_answer, rag_result>>

RagReturn ==
    /\ rag_pc = "idle"
    /\ Return
    /\ store_raised' = FALSE
    /\ UNCHANGED <<qa_pipeline, generator, rag_pc, rag_call, rag_results, context,
                   qa_out, qa_answer, gen_out, gen_answer, rag_result>>

InitRag ==
    /\ qa_pipeline = FALSE
    /\ generator = FALSE
    /\ rag_pc = "idle"
    /\ rag_call = NoRagCall
    /\ rag_results = <<>>
    /\ context = <<>>
    /\ qa_out = NoOut
    /\ qa_answer = QaReturn({}, 0)
    /\ gen_out = NoOut
    /\ gen_answer = {}
    /\ rag_result = NoRagResult
    /\ store_raised = FALSE


(***************************************************************************)
(* Retrieval over an index that holds whole documents of several loans.    *)
(***************************************************************************)
\* largest number of vectors in the index shared by the loans
MaxRetrievalIndex == 19

\* a document has one chunk, or as many as search over-fetches for query
DocumentSizes == {1, FAISS_TOP_K * 3}

DocumentChunkLists == {[i \in 1..n |-> c] : n \in DocumentSizes, c \in Chunk}

\* the positions of the index that belong to loan_id
LoanChunks(meta, loan_id) == {i \in 1..Len(meta) : meta[i].loan_id = loan_id}

\* add_chunks with the chunks of a loan's document, once per loan
AddDocumentChunks ==
    /\ rag_pc = "idle"
    /\ \E chunk_list \in DocumentChunkLists, loan_id \in Loans :
          /\ LoanChunks(LoadedMetadata, loan_id) = {}
          /\ Len(LoadedIndex) + Len(chunk_list) <= MaxRetrievalIndex
          /\ add_chunks(chunk_list, loan_id)
    /\ UNCHANGED rag_vars

(***************************************************************************)
(* The sustainability metrics: transition score and SPT calibration.       *)
(***************************************************************************)
\* A target_reduction argument: None, a number, a string that float() parses,
\* or a string that float() rejects ("abc"; value is unused then).
TargetReduction(kind, value) == [kind |-> kind, value |-> value]

TargetReductions ==
    {TargetReduction("none", 0), TargetReduction("text", 0),
     TargetReduction("numeric_string", 30), TargetReduction("empty_string", 0)}
    \cup {TargetReduction("number", v) : v \in {0, 10, 28, 30, 50}}

\* bool(target_reduction)
Truthy(tr) ==
    \/ tr.kind \in {"text", "numeric_string"}
    \/ tr.kind = "number" /\ tr.value # 0

\* float(target_reduction) raises for the strings that are no number
FloatRaises(tr) == tr.kind \in {"text", "empty_string", "none"}

Questionnaire(ghg, disclosures, compliance, timebound, phaseout) ==
    [q_adopt_ghg_protocol |-> ghg, q_published_climate_disclosures |-> disclosures,
     q_regulatory_compliance |-> compliance, q_timebound_targets |-> timebound,
     q_phaseout_highcarbon |-> phaseout]

\* questionnaire_data; "" stands for a key the dict does not have
Questionnaires ==
    {Questionnaire("", "", "", "", "")}
    \cup {Questionnaire(g, d, c, t, p) :
            g \in {"yes", "no"}, d \in {"yes", "no"},
            c \in {"fully_compliant", "in_progress", ""},
            t \in {"yes", "no"}, p \in {"yes", "no"}}

governance_score(q) ==
    Min(25, (IF q.q_adopt_ghg_protocol = "yes" THEN 8 ELSE 0)
            + (IF q.q_published_climate_disclosures = "yes" THEN 8 ELSE 0)
            + (IF q.q_regulatory_compliance = "fully_compliant" THEN 9
               ELSE IF q.q_regulatory_compliance = "in_progress" THEN 5 ELSE 0))

alignment_score(q, glp_eligible) ==
    Min(25, (IF glp_eligible THEN 15 ELSE 0)
            + (IF q.q_timebound_targets = "yes" THEN 5 ELSE 0)
            + (IF q.q_phaseout_highcarbon = "yes" THEN 5 ELSE 0))

emissions_score(has_baseline, has_targets, sector_risk) ==
    Min(25, (IF has_baseline THEN 10 ELSE 0)
            + (IF has_targets THEN 10 ELSE 0)
            + (IF sector_risk = "low" THEN 5
               ELSE IF sector_risk = "medium" THEN 3 ELSE 0))

ambition_score(tr) ==
    IF ~Truthy(tr) \/ FloatRaises(tr) THEN 0
    ELSE IF tr.value >= 50 THEN 25
    ELSE IF tr.value >= 30 THEN 20
    ELSE IF tr.value >= 20 THEN 15
    ELSE IF tr.value >= 10 THEN 10
    ELSE 5

transition_grade(total) ==
    IF total >= 85 THEN "A"
    ELSE IF total >= 70 THEN "B"
    ELSE IF total >= 55 THEN "C"
    ELSE IF total >= 40 THEN "D"
    ELSE "F"

calculate_transition_score(q, has_targets, tr, has_baseline, sector_risk, glp_eligible) ==
    LET governance == governance_score(q)
        alignment == alignment_score(q, glp_eligible)
        emissions == emissions_score(has_baseline, has_targets, sector_risk)
        ambition == ambition_score(tr)
        total == governance + alignment + emissions + ambition
    IN [total |-> total, governance |-> governance, alignment |-> alignment,
        emissions |-> emissions, ambition |-> ambition,
        grade |-> transition_grade(total),
        assessment |-> IF total >= 70 THEN "strong"
                       ELSE IF total >= 50 THEN "moderate" ELSE "limited"]

MetricsSectors == {"Renewable energy", "Shipping"}

\* get_sector_benchmark: "Shipping" matches no key and gets DEFAULT_BENCHMARK
get_sector_benchmark(sector) ==
    IF sector = "Renewable energy"
    THEN [intensity |-> 20, risk |-> "low", pathway_target_2030 |-> 10]
    ELSE [intensity |-> 200, risk |-> "medium", pathway_target_2030 |-> 120]

\* (1 - (target_emissions / total_emissions) ** (1 / years_to_target)) * 100 in
\* millionths of a percent, as the floating-point code computes it
AnnualRate(reduction, years_to_target) ==
    CASE reduction = 10 /\ years_to_target = 5 -> 2085163
      [] reduction = 10 /\ years_to_target = 10 -> 1048074
      [] reduction = 10 /\ years_to_target = 13 -> 807190
      [] reduction = 28 /\ years_to_target = 5 -> 6358901
      [] reduction = 28 /\ years_to_target = 10 -> 3231669
      [] reduction = 28 /\ years_to_target = 13 -> 2495294
      [] reduction = 30 /\ years_to_target = 5 -> 6885008
      [] reduction = 30 /\ years_to_target = 10 -> 3503890
      [] reduction = 30 /\ years_to_target = 13 -> 2706357
      [] reduction = 50 /\ years_to_target = 5 -> 12944943
      [] reduction = 50 /\ years_to_target = 10 -> 6696700
      [] reduction = 50 /\ years_to_target = 13 -> 5192248

\* round(a / b) to the nearest integer, for a, b > 0
RoundDiv(a, b) == (2 * a + b) \div (2 * b)

\* calculate_spt_metrics with the bands applied to the rate as it is returned,
\* rounded to two decimals
calculate_spt_metrics_rounded_rate(total_emissions, tr, baseline_year, target_year, sector) ==
    IF ~Truthy(tr) \/ total_emissions = 0 \/ FloatRaises(tr) THEN {}
    ELSE LET reduction_pct == tr.value
             base_year == IF baseline_year = {} \/ baseline_year = {0} THEN 2025
                          ELSE CHOOSE y \in baseline_year : TRUE
             years_to_target == Max(1, target_year - base_year)
             rounded_rate == RoundDiv(AnnualRate(reduction_pct, years_to_target), 10000)
             benchmark == get_sector_benchmark(sector)
             required == benchmark.intensity - benchmark.pathway_target_2030
         IN {[baseline_emissions |-> total_emissions,
              target_emissions |-> total_emissions * (100 - reduction_pct),
              target_year |-> target_year,
              reduction_percentage |-> reduction_pct,
              annual_reduction_rate |-> rounded_rate,
              is_science_based |-> rounded_rate >= 420,
              ambition_level |-> IF rounded_rate >= 700 THEN "science-based"
                                 ELSE IF rounded_rate >= 420 THEN "ambitious"
                                 ELSE IF rounded_rate >= 250 THEN "moderate"
                                 ELSE "low",
              pathway_alignment |->
                  IF benchmark.intensity > 0
                  THEN IF required > 0
                       THEN Min(1000, RoundDiv(1000 * reduction_pct * benchmark.intensity,
                                               100 * required))
                       ELSE 1000
                  ELSE 500]}

\* calculate_spt_metrics: {} is None; amounts in hundredths, rates in
\* millionths (annual_rate) and hundredths (annual_reduction_rate) of a
\* percent, pathway_alignment in tenths
calculate_spt_metrics(total_emissions, tr, baseline_year, target_year, sector) ==
    IF ~Truthy(tr) \/ total_emissions = 0 \/ FloatRaises(tr) THEN {}
    ELSE LET reduction_pct == tr.value
             base_year == IF baseline_year = {} \/ baseline_year = {0} THEN 2025
                          ELSE CHOOSE y \in baseline_year : TRUE
             years_to_target == Max(1, target_year - base_year)
             annual_rate == AnnualRate(reduction_pct, years_to_target)
             benchmark == get_sector_benchmark(sector)
             required == benchmark.intensity - benchmark.pathway_target_2030
         IN {[baseline_emissions |-> total_emissions,
              target_emissions |-> total_emissions * (100 - reduction_pct),
              target_year |-> target_year,
              reduction_percentage |-> reduction_pct,
              annual_reduction_rate |-> RoundDiv(annual_rate, 10000),
              is_science_based |-> annual_rate >= 4200000,
              ambition_level |-> IF annual_rate >= 7000000 THEN "science-based"
                                 ELSE IF annual_rate >= 4200000 THEN "ambitious"
                                 ELSE IF annual_rate >= 2500000 THEN "moderate"
                                 ELSE "low",
              pathway_alignment |->
                  IF benchmark.intensity > 0
                  THEN IF required > 0
                       THEN Min(1000, RoundDiv(1000 * reduction_pct * benchmark.intensity,
                                               100 * required))
                       ELSE 1000
                  ELSE 500]}

\* scope or 0
OrZero(opt) == IF opt = {} THEN 0 ELSE CHOOSE v \in opt : TRUE

\* has_targets=bool(target_reduction)
HasTargets(tr) == Truthy(tr)

\* calculate_all_metrics with annual_revenue None: the carbon intensity is 0,
\* its performance "unknown". Percentages in tenths, amounts in hundredths.
calculate_all_metrics(scope1, scope2, scope3, sector, tr, baseline_year, q, glp_eligible, sector_risk) ==
    LET total_emissions == OrZero(scope1) + OrZero(scope2) + OrZero(scope3)
        pct(scope) == IF total_emissions > 0
                      THEN RoundDiv(1000 * OrZero(scope), total_emissions) ELSE 0
    IN [emissions |-> [total |-> total_emissions, scope1_pct |-> pct(scope1),
                       scope2_pct |-> pct(scope2), scope3_pct |-> pct(scope3)],
        carbon_intensity |-> [value |-> 0, performance |-> "unknown", ratio |-> 0,
                              sector_benchmark |-> get_sector_benchmark(sector).intensity],
        transition_score |->
            calculate_transition_score(q, HasTargets(tr), tr,
                                       baseline_year # {} /\ baseline_year # {0},
                                       sector_risk, glp_eligible),
        spt_metrics |-> calculate_spt_metrics(total_emissions, tr, baseline_year,
                                              2030, sector),
        reduction_potential |->
            [absolute |-> IF Truthy(tr) /\ ~FloatRaises(tr)
                          THEN total_emissions * tr.value ELSE 0,
             intensity |-> 0]]

MetricsCall(scope1, scope2, scope3, sector, tr, baseline_year, q, glp_eligible, sector_risk) ==
    [op |-> "calculate_all_metrics", scope1 |-> scope1, scope2 |-> scope2,
     scope3 |-> scope3, sector |-> sector, target_reduction |-> tr,
     baseline_year |-> baseline_year, questionnaire_data |-> q,
     glp_eligible |-> glp_eligible, sector_risk |-> sector_risk]

NoMetricsCall ==
    [op |-> "none", scope1 |-> {}, scope2 |-> {}, scope3 |-> {}, sector |-> "",
     target_reduction |-> TargetReduction("none", 0), baseline_year |-> {},
     questionnaire_data |-> Questionnaire("", "", "", "", ""),
     glp_eligible |-> FALSE, sector_risk |-> ""]

NoMetricsResult == [none |-> TRUE]

ScopeTriples == {<<{}, {}, {}>>, <<{600}, {400}, {}>>}

CalculateAllMetrics ==
    /\ metrics_call.op = "none"
    /\ \E scopes \in ScopeTriples, sector \in MetricsSectors,
          tr \in TargetReductions, baseline_year \in {{}, {2017}, {2020}, {2025}},
          q \in Questionnaires, glp_eligible \in BOOLEAN,
          sector_risk \in {"low", "medium", "high"} :
          /\ metrics_call' = MetricsCall(scopes[1], scopes[2], scopes[3], sector, tr,
                                         baseline_year, q, glp_eligible, sector_risk)
          /\ metrics_result' = calculate_all_metrics(scopes[1], scopes[2], scopes[3],
                                         sector, tr, baseline_year, q, glp_eligible,
                                         sector_risk)

ReturnMetrics ==
    /\ metrics_call.op # "none"
    /\ metrics_call' = NoMetricsCall
    /\ metrics_result' = NoMetricsResult

InitMetrics ==
    /\ metrics_call = NoMetricsCall
    /\ metrics_result = NoMetricsResult

(***************************************************************************)
(* IngestionService.run_ingestion: the per-document loop.                  *)
(***************************************************************************)
\* largest number of documents of a loan
MaxDocs == 3

\* A document of the loan: what extract_text_from_file does with its file
\* ("text": returns text, "empty": returns "", the PDF and DOCX readers having
\* swallowed their errors, "raises": the open of a .txt file raises), how many
\* chunks its text makes, and whether text_extracted was stored by an earlier
\* run.
Doc(extraction, n_chunks, text_extracted) ==
    [extraction |-> extraction, n_chunks |-> n_chunks,
     text_extracted |-> text_extracted]

Docs == {Doc("text", 1, FALSE), Doc("text", 2, FALSE), Doc("empty", 0, FALSE),
         Doc("raises", 1, FALSE), Doc("text", 1, TRUE)}

DocLists == UNION {[1..n -> Docs] : n \in 0..MaxDocs}

\* the metadata run_ingestion hands to add_embeddings for document doc_id
ChunkMetadata(doc_id, n_chunks) ==
    [c \in 1..n_chunks |-> [document_id |-> doc_id, chunk_index |-> c - 1]]

\* extract_text_from_file raises: nothing in the loop catches it
ExtractionRaises(doc) == ~doc.text_extracted /\ doc.extraction = "raises"

\* doc.text_extracted after the extraction step is not empty
HasText(doc) == doc.text_extracted \/ doc.extraction = "text"

\* FAISSIndex._load_or_create_index: the index and the mapping are read from
\* the loan's files when the index file exists, and are new otherwise
load_or_create_index(ipath, mpath) ==
    IF ipath # <<>>
    THEN [ntotal |-> ipath[1], chunk_mapping |-> mpath[1]]
    ELSE [ntotal |-> 0, chunk_mapping |-> <<>>]

\* a clear that leaves the loaded index and mapping in the object
clear_keeps_loaded(self) == self

\* FAISSIndex.clear: a new index and an empty mapping
clear(self) == [ntotal |-> 0, chunk_mapping |-> <<>>]

\* run_ingestion, lines 31-49: the job is created, the loan's index loaded by
\* get_index and cleared, which unlinks both files
StartIngestion ==
    /\ ingest_pc = "idle"
    /\ \E docs \in DocLists : documents' = docs
    /\ job_status' = "running"
    /\ chunks_created' = 0
    /\ LET loaded == load_or_create_index(index_path, mapping_path)
           cleared == clear(loaded)
       IN /\ loaded_mapping' = loaded.chunk_mapping
          /\ index_ntotal' = cleared.ntotal
          /\ chunk_mapping' = cleared.chunk_mapping
    /\ index_path' = <<>>
    /\ mapping_path' = <<>>
    /\ total_chunks' = 0
    /\ doc_i' = 1
    /\ ingest_pc' = "loop"
    /\ ingest_raised' = FALSE

\* one pass of "for doc in documents"; an exception leaves the loop for the
\* handler of lines 196-202
ProcessDocument ==
    /\ ingest_pc = "loop"
    /\ doc_i <= Len(documents)
    /\ LET doc == documents[doc_i]
       IN IF ExtractionRaises(doc)
          THEN /\ job_status' = "failed"
               /\ ingest_raised' = TRUE
               /\ ingest_pc' = "done"
               /\ UNCHANGED <<documents, chunk_mapping, total_chunks, doc_i,
                              index_ntotal, index_path, mapping_path>>
          ELSE /\ documents' = [documents EXCEPT ![doc_i].text_extracted = HasText(doc)]
               /\ IF HasText(doc) /\ doc.n_chunks > 0
                  THEN \* add_embeddings: index.add, chunk_mapping.extend, _save_index
                       /\ index_ntotal' = index_ntotal + doc.n_chunks
                       /\ chunk_mapping' = chunk_mapping \o ChunkMetadata(doc_i, doc.n_chunks)
                       /\ index_path' = <<index_ntotal'>>
                       /\ mapping_path' = <<chunk_mapping'>>
                       /\ total_chunks' = total_chunks + doc.n_chunks
                  ELSE UNCHANGED <<chunk_mapping, total_chunks, index_ntotal,
                                   index_path, mapping_path>>
               /\ doc_i' = doc_i + 1
               /\ UNCHANGED <<job_status, ingest_raised, ingest_pc>>
    /\ UNCHANGED <<loaded_mapping, chunks_created>>

\* run_ingestion, lines 96-194: the analysis of the combined text, then the
\* job is completed
FinishIngestion ==
    /\ ingest_pc = "loop"
    /\ doc_i > Len(documents)
    /\ job_status' = "completed"
    /\ chunks_created' = total_chunks
    /\ ingest_pc' = "done"
    /\ UNCHANGED <<documents, chunk_mapping, total_chunks, doc_i, ingest_raised,
                   index_ntotal, index_path, mapping_path, loaded_mapping>>

\* the caller has taken the result, or the exception: the FAISSIndex object
\* of the run is gone, the loan's files stay
ReturnIngestion ==
    /\ ingest_pc = "done"
    /\ ingest_pc' = "idle"
    /\ documents' = <<>>
    /\ job_status' = "none"
    /\ chunk_mapping' = <<>>
    /\ total_chunks' = 0
    /\ doc_i' = 0
    /\ ingest_raised' = FALSE
    /\ index_ntotal' = 0
    /\ loaded_mapping' = <<>>
    /\ chunks_created' = 0
    /\ UNCHANGED <<index_path, mapping_path>>

InitIngestion ==
    /\ ingest_pc = "idle"
    /\ documents = <<>>
    /\ job_status = "none"
    /\ chunk_mapping = <<>>
    /\ total_chunks = 0
    /\ doc_i = 0
    /\ ingest_raised = FALSE
    /\ index_ntotal = 0
    /\ index_path = <<>>
    /\ mapping_path = <<>>
    /\ loaded_mapping = <<>>
    /\ chunks_created = 0

(***************************************************************************)
(* EmbeddingService used by several request handlers at once, statement by *)
(* statement; the service holds no lock. The process may stop at any       *)
(* moment and a write of _save_index may fail.                             *)
(***************************************************************************)
\* largest number of calls the handlers start
MaxCalls == 3
\* largest number of times the process stops and starts again
MaxCrashes == 1

Handlers == {1, 2}

\* the chunk a handler adds for a loan
ChunkTextOf(loan_id) == IF loan_id = 1 THEN "t1" ELSE "t2"

Handler(pc, op, loan_id, keep, new_index, new_metadata) ==
    [pc |-> pc, op |-> op, loan_id |-> loan_id, keep_indices |-> keep,
     new_index |-> new_index, new_metadata |-> new_metadata]

IdleHandler == Handler("idle", "none", 0, {}, <<>>, <<>>)

At(h, pc) == handlers[h].pc = pc

Goto(h, pc) == handlers' = [handlers EXCEPT ![h].pc = pc]

\* where a call goes on after _ensure_model and after _ensure_index
AfterEnsureModel(op) == IF op = "add_chunks" THEN "ensure_index" ELSE "rebuild"
AfterEnsureIndex(op) == IF op = "add_chunks" THEN "index_add" ELSE "scan"

\* a handler calls add_chunks (one chunk) or clear_loan
StartCall(h) ==
    /\ At(h, "idle")
    /\ calls < MaxCalls
    /\ calls' = calls + 1
    /\ \E op \in {"add_chunks", "clear_loan"}, loan_id \in Loans :
          /\ handlers' = [handlers EXCEPT ![h] =
                 Handler(IF op = "add_chunks" THEN "ensure_model" ELSE "ensure_index",
                         op, loan_id, {}, <<>>, <<>>)]
          /\ added' = IF op = "clear_loan" THEN [added EXCEPT ![loan_id] = 0] ELSE added
    /\ UNCHANGED <<model, initialized, index, metadata, index_file, metadata_file,
                   model_loads, index_loads, crashes>>

\* _ensure_model, line 34: if self._model is not None: return
EnsureModelCheck(h) ==
    /\ At(h, "ensure_model")
    /\ Goto(h, IF model THEN AfterEnsureModel(handlers[h].op) ELSE "load_model")
    /\ UNCHANGED <<model, initialized, index, metadata, index_file, metadata_file,
                   model_loads, index_loads, calls, crashes, added>>

\* _ensure_model, line 39: the model is constructed and assigned
LoadModel(h) ==
    /\ At(h, "load_model")
    /\ model' = TRUE
    /\ model_loads' = model_loads + 1
    /\ Goto(h, AfterEnsureModel(handlers[h].op))
    /\ UNCHANGED <<initialized, index, metadata, index_file, metadata_file,
                   index_loads, calls, crashes, added>>

\* _ensure_index, line 47: if self._initialized: return
EnsureIndexCheck(h) ==
    /\ At(h, "ensure_index")
    /\ Goto(h, IF initialized THEN AfterEnsureIndex(handlers[h].op) ELSE "load_index")
    /\ UNCHANGED <<model, initialized, index, metadata, index_file, metadata_file,
                   model_loads, index_loads, calls, crashes, added>>

\* _ensure_index, lines 54-67: the index is read from the files, or created
\* (with the model, loaded here when it is not loaded yet)
LoadIndex(h) ==
    /\ At(h, "load_index")
    /\ IF index_file # <<>> /\ metadata_file # <<>>
       THEN /\ index' = index_file[1]
            /\ metadata' = metadata_file[1]
            /\ UNCHANGED <<model, model_loads>>
       ELSE /\ index' = <<>>
            /\ metadata' = <<>>
            /\ model' = TRUE
            /\ model_loads' = IF model THEN model_loads ELSE model_loads + 1
    /\ initialized' = TRUE
    /\ index_loads' = index_loads + 1
    /\ Goto(h, AfterEnsureIndex(handlers[h].op))
    /\ UNCHANGED <<index_file, metadata_file, calls, crashes, added>>

\* add_chunks, line 117: self._index.add(embeddings_array)
IndexAdd(h) ==
    /\ At(h, "index_add")
    /\ index' = Append(index, Embed(ChunkTextOf(handlers[h].loan_id)))
    /\ Goto(h, "metadata_append")
    /\ UNCHANGED <<model, initialized, metadata, index_file, metadata_file,
                   model_loads, index_loads, calls, crashes, added>>

\* add_chunks, lines 120-131: self._metadata.append({...})
MetadataAppend(h) ==
    /\ At(h, "metadata_append")
    /\ metadata' = Append(metadata, [loan_id |-> handlers[h].loan_id,
                                     text |-> ChunkTextOf(handlers[h].loan_id),
                                     doc_type |-> "report"])
    /\ Goto(h, "save_index_file")
    /\ UNCHANGED <<model, initialized, index, index_file, metadata_file,
                   model_loads, index_loads, calls, crashes, added>>

\* clear_loan, lines 221-225: keep_indices, removed_count
Scan(h) ==
    /\ At(h, "scan")
    /\ LET keep == KeepIndices(metadata, handlers[h].loan_id)
       IN handlers' = [handlers EXCEPT
              ![h].keep_indices = keep,
              ![h].pc = IF Len(metadata) - Cardinality(keep) = 0 THEN "return"
                        ELSE "ensure_model"]
    /\ UNCHANGED <<model, initialized, index, metadata, index_file, metadata_file,
                   model_loads, index_loads, calls, crashes, added>>

\* clear_loan, lines 231-238: new_index and new_metadata from the entries of
\* self._metadata at keep_indices; an index past the end raises IndexError
Rebuild(h) ==
    /\ At(h, "rebuild")
    /\ IF \E i \in handlers[h].keep_indices : i > Len(metadata)
       THEN Goto(h, "return")
       ELSE LET new_metadata == NewMetadata(metadata, handlers[h].keep_indices)
            IN handlers' = [handlers EXCEPT
                   ![h].new_metadata = new_metadata,
                   ![h].new_index = EncodeAll(TextsOf(new_metadata)),
                   ![h].pc = "assign_index"]
    /\ UNCHANGED <<model, initialized, index, metadata, index_file, metadata_file,
                   model_loads, index_loads, calls, crashes, added>>

\* clear_loan, line 240: self._index = new_index
AssignIndex(h) ==
    /\ At(h, "assign_index")
    /\ index' = handlers[h].new_index
    /\ Goto(h, "assign_metadata")
    /\ UNCHANGED <<model, initialized, metadata, index_file, metadata_file,
                   model_loads, index_loads, calls, crashes, added>>

\* clear_loan, line 241: self._metadata = new_metadata
AssignMetadata(h) ==
    /\ At(h, "assign_metadata")
    /\ metadata' = handlers[h].new_metadata
    /\ Goto(h, "save_index_file")
    /\ UNCHANGED <<model, initialized, index, index_file, metadata_file,
                   model_loads, index_loads, calls, crashes, added>>

\* _save_index, line 76: faiss.write_index; when the write raises, the except
\* of line 80 logs it and _save_index returns
SaveIndexFile(h) ==
    /\ At(h, "save_index_file")
    /\ \/ index_file' = <<index>> /\ Goto(h, "save_metadata_file")
       \/ index_file' = index_file /\ Goto(h, "return")
    /\ UNCHANGED <<model, initialized, index, metadata, metadata_file,
                   model_loads, index_loads, calls, crashes, added>>

\* _save_index, lines 77-78: pickle.dump of the metadata, which may raise too
SaveMetadataFile(h) ==
    /\ At(h, "save_metadata_file")
    /\ \/ metadata_file' = <<metadata>>
       \/ metadata_file' = metadata_file
    /\ Goto(h, "return")
    /\ UNCHANGED <<model, initialized, index, metadata, index_file,
                   model_loads, index_loads, calls, crashes, added>>

\* the call returns to its handler: add_chunks its count, clear_loan the
\* number of entries it removed
ReturnCall(h) ==
    /\ At(h, "return")
    /\ added' = [added EXCEPT ![handlers[h].loan_id] =
                    IF handlers[h].op = "add_chunks" THEN @ + 1 ELSE 0]
    /\ handlers' = [handlers EXCEPT ![h] = IdleHandler]
    /\ UNCHANGED <<model, initialized, index, metadata, index_file, metadata_file,
                   model_loads, index_loads, calls, crashes>>

\* the process stops and a new one starts: the files stay, the memory is that
\* of EmbeddingService.__init__
Crash ==
    /\ crashes < MaxCrashes
    /\ crashes' = crashes + 1
    /\ model' = FALSE
    /\ initialized' = FALSE
    /\ index' = <<>>
    /\ metadata' = <<>>
    /\ model_loads' = 0
    /\ index_loads' = 0
    /\ handlers' = [h \in Handlers |-> IdleHandler]
    /\ UNCHANGED <<index_file, metadata_file, calls, added>>

InitConcurrent ==
    /\ handlers = [h \in Handlers |-> IdleHandler]
    /\ model_loads = 0
    /\ index_loads = 0
    /\ calls = 0
    /\ crashes = 0
    /\ added = [loan_id \in Loans |-> 0]

InitOther == InitRag /\ InitMetrics /\ InitIngestion /\ InitConcurrent

(***************************************************************************)
(* The specifications.                                                     *)
(***************************************************************************)
Init == InitStore /\ InitChunkerIdle /\ InitScoring /\ InitOther

Next ==
    \/ AddChunks /\ UNCHANGED <<chunker_vars, scoring_vars, other_vars>>
    \/ ClearLoan /\ UNCHANGED <<chunker_vars, scoring_vars, other_vars>>
    \/ Search /\ UNCHANGED <<chunker_vars, scoring_vars, other_vars>>
    \/ Return /\ UNCHANGED <<chunker_vars, scoring_vars, other_vars>>

Spec == Init /\ [][Next]_vars

InitChunking == InitStore /\ InitChunker /\ InitScoring /\ InitOther

NextChunking ==
    \/ create_chunks_step
    \/ create_chunks_return
    \/ chunk_text_step
    \/ chunk_text_return

SpecChunker == InitChunking /\ [][NextChunking]_vars

\* A chunker is sequential code: while the condition of its loop holds the
\* next iteration runs, and when it fails the function returns.
SpecChunkerFair == InitChunking /\ [][NextChunking]_vars /\ WF_vars(NextChunking)

NextScoring ==
    \/ AssessCarbonLockin /\ UNCHANGED <<store_vars, chunker_vars, other_vars>>
    \/ AssessGlpEligibility /\ UNCHANGED <<store_vars, chunker_vars, other_vars>>
    \/ CalculateDnshPenalty /\ UNCHANGED <<store_vars, chunker_vars, other_vars>>
    \/ CalculateCompositeScore /\ UNCHANGED <<store_vars, chunker_vars, other_vars>>
    \/ ReturnScoring /\ UNCHANGED <<store_vars, chunker_vars, other_vars>>

SpecScoring == Init /\ [][NextScoring]_vars

NextCategory ==
    \/ ValidateUseOfProceeds /\ UNCHANGED <<store_vars, chunker_vars, other_vars>>
    \/ ReturnScoring /\ UNCHANGED <<store_vars, chunker_vars, other_vars>>

SpecCategory == Init /\ [][NextCategory]_vars

NextGreenScoring ==
    \/ ScoreGreenProject /\ UNCHANGED <<store_vars, chunker_vars, other_vars>>
    \/ ReturnScoring /\ UNCHANGED <<store_vars, chunker_vars, other_vars>>

SpecGreenScoring == Init /\ [][NextGreenScoring]_vars

RagQuery == \E question \in Texts, loan_id \in Loans : Query(question, loan_id)

RagQueryRaises == \E question \in Texts, loan_id \in Loans : QueryRaises(question, loan_id)

NextRag ==
    \/ RagAddChunks /\ UNCHANGED rag_frame
    \/ RagAddChunksRaises /\ UNCHANGED rag_frame
    \/ RagReturn /\ UNCHANGED rag_frame
    \/ RagQuery /\ UNCHANGED rag_frame
    \/ RagQueryRaises /\ UNCHANGED rag_frame
    \/ ExtractWithQa /\ UNCHANGED rag_frame
    \/ GenerateAnswer /\ UNCHANGED rag_frame
    \/ QueryReturn /\ UNCHANGED rag_frame

SpecRag == Init /\ [][NextRag]_vars

NextRetrieval ==
    \/ AddDocumentChunks /\ UNCHANGED rag_frame
    \/ RagReturn /\ UNCHANGED rag_frame
    \/ RagQuery /\ UNCHANGED rag_frame
    \/ ExtractWithQa /\ UNCHANGED rag_frame
    \/ GenerateAnswer /\ UNCHANGED rag_frame
    \/ QueryReturn /\ UNCHANGED rag_frame

SpecRetrieval == Init /\ [][NextRetrieval]_vars

NextMetrics ==
    \/ CalculateAllMetrics /\ UNCHANGED metrics_frame
    \/ ReturnMetrics /\ UNCHANGED metrics_frame

SpecMetrics == Init /\ [][NextMetrics]_vars

NextIngestion ==
    \/ StartIngestion /\ UNCHANGED ingest_frame
    \/ ProcessDocument /\ UNCHANGED ingest_frame
    \/ FinishIngestion /\ UNCHANGED ingest_frame
    \/ ReturnIngestion /\ UNCHANGED ingest_frame

SpecIngestion == Init /\ [][NextIngestion]_vars

NextConcurrent ==
    \/ \E h \in Handlers : StartCall(h) /\ UNCHANGED conc_frame
    \/ \E h \in Handlers : EnsureModelCheck(h) /\ UNCHANGED conc_frame
    \/ \E h \in Handlers : LoadModel(h) /\ UNCHANGED conc_frame
    \/ \E h \in Handlers : EnsureIndexCheck(h) /\ UNCHANGED conc_frame
    \/ \E h \in Handlers : LoadIndex(h) /\ UNCHANGED conc_frame
    \/ \E h \in Handlers : IndexAdd(h) /\ UNCHANGED conc_frame
    \/ \E h \in Handlers : MetadataAppend(h) /\ UNCHANGED conc_frame
    \/ \E h \in Handlers : Scan(h) /\ UNCHANGED conc_frame
    \/ \E h \in Handlers : Rebuild(h) /\ UNCHANGED conc_frame
    \/ \E h \in Handlers : AssignIndex(h) /\ UNCHANGED conc_frame
    \/ \E h \in Handlers : AssignMetadata(h) /\ UNCHANGED conc_frame
    \/ \E h \in Handlers : SaveIndexFile(h) /\ UNCHANGED conc_frame
    \/ \E h \in Handlers : SaveMetadataFile(h) /\ UNCHANGED conc_frame
    \/ \E h \in Handlers : ReturnCall(h) /\ UNCHANGED conc_frame
    \/ Crash /\ UNCHANGED conc_frame

SpecConcurrent == Init /\ [][NextConcurrent]_vars

(***************************************************************************)
(* Properties of the vector store, checked under Spec.                     *)
(***************************************************************************)

\* C1: after any sequence of completed add_chunks and clear_loan calls the
\* number of vectors in the index equals the length of the metadata list, and
\* vector i is the embedding of the text of metadata entry i.
IndexMatchesMetadata ==
    /\ Len(index) = Len(metadata)
    /\ \A i \in 1..Len(metadata) : index[i] = Embed(metadata[i].text)

\* an add_chunks call that filled the index, which holds both texts
IndexMatchesMetadataWitness ==
    /\ last_call.op = "add_chunks"
    /\ ret_count = MaxChunks
    /\ Len(index) = MaxIndex
    /\ \E i, j \in 1..Len(metadata) : metadata[i].text # metadata[j].text

\* C2: clear_loan(L) removes every entry of L and nothing else: the entries
\* of the other loans stay, unchanged and in their order, the index holds
\* exactly their vectors, and the call returns the number removed.
ClearLoanFrame ==
    [][last_call'.op = "clear_loan" =>
        LET NotCleared(e) == e.loan_id \notin last_call'.loan_id
            survivors == SelectSeq(metadata, NotCleared)
        IN /\ metadata' = survivors
           /\ Len(index') = Len(survivors)
           /\ \A i \in 1..Len(survivors) : index'[i] = Embed(survivors[i].text)
           /\ \A i \in 1..Len(metadata') : NotCleared(metadata'[i])
           /\ ret_count' = Len(metadata) - Len(survivors)]_vars

\* a clear_loan that removed entries of its loan and left entries of another
ClearLoanFrameWitness ==
    /\ last_call.op = "clear_loan"
    /\ ret_count >= 2
    /\ Len(metadata) >= 2

\* C3: search returns at most k results, each of the requested loan (when one
\* is given) and of the requested doc_type (when one is given).
SearchScoped ==
    last_call.op = "search" =>
        /\ Len(results) <= last_call.k
        /\ \A i \in 1..Len(results) :
              /\ last_call.loan_id # {} => results[i].loan_id \in last_call.loan_id
              /\ last_call.doc_type # {} => results[i].doc_type \in last_call.doc_type

\* a search scoped to one loan that returned k results while the index also
\* holds a chunk of another loan with the text of the query
SearchScopedWitness ==
    /\ last_call.op = "search"
    /\ last_call.loan_id # {}
    /\ last_call.k = MaxK
    /\ Len(results) = last_call.k
    /\ \E i \in 1..Len(metadata) :
          /\ metadata[i].loan_id \notin last_call.loan_id
          /\ metadata[i].text = last_call.query

\* C4: self-retrieval. Whenever a chunk with the text of the query is indexed
\* for loan L, search(text, loan_id = L, k) returns a chunk of L with that
\* text as its first result.
SelfRetrieval ==
    (/\ last_call.op = "search"
     /\ last_call.loan_id # {}
     /\ last_call.doc_type = {}
     /\ \E i \in 1..Len(metadata) :
           /\ metadata[i].loan_id \in last_call.loan_id
           /\ metadata[i].text = last_call.query)
    => /\ results # <<>>
       /\ results[1].text = last_call.query
       /\ results[1].loan_id \in last_call.loan_id


(***************************************************************************)
(* Properties of the chunkers, checked under SpecChunker.                  *)
(***************************************************************************)
Take(ws, n) == SubSeq(ws, 1, Min(n, Len(ws)))

LastWords(ws, n) == SubSeq(ws, Len(ws) - n + 1, Len(ws))

\* the first n words of every chunk before the last, then the last chunk whole
RECURSIVE Reconstruct(_, _, _)
Reconstruct(cs, i, n) ==
    IF i > Len(cs) THEN <<>>
    ELSE IF i = Len(cs) THEN cs[i].text
    ELSE Take(cs[i].text, n) \o Reconstruct(cs, i + 1, n)

\* C5: chunk coverage. The first (chunk_size - overlap) words of each
\* non-final chunk followed by all words of the final chunk are exactly the
\* words of the text.
ChunkCoverage ==
    chunker_pc = "done" =>
        Reconstruct(chunks, 1, chunk_cfg.size - chunk_cfg.overlap) = words

\* a text cut into three or more overlapping chunks, the last one short
ChunkCoverageWitness ==
    /\ chunker_pc = "done"
    /\ Len(chunks) >= 3
    /\ chunk_cfg.overlap > 0
    /\ Len(chunks[Len(chunks)].text) < chunk_cfg.size
    /\ \E i, j \in 1..Len(words) : words[i] # words[j]

\* C6: the chunks come in text order and are numbered from 0; every chunk but
\* the last has chunk_size words; each chunk after the first begins with the
\* last `overlap` words of the chunk before it; an empty text gives no chunk
\* and a text shorter than chunk_size one chunk; with chunk_size 1000 and
\* overlap 200 a text of 1200 words gives words[0:1000] and words[800:1200].
ChunkShape ==
    chunker_pc = "done" =>
        LET size == chunk_cfg.size
            overlap == chunk_cfg.overlap
            n == Len(chunks)
        IN /\ \A i \in 1..n :
                /\ chunks[i].chunk_index = i - 1
                /\ chunks[i].text =
                      SubSeq(words, (i - 1) * (size - overlap) + 1,
                             Min((i - 1) * (size - overlap) + size, Len(words)))
           /\ \A i \in 1..(n - 1) : Len(chunks[i].text) = size
           /\ \A i \in 2..n :
                /\ Len(chunks[i].text) >= overlap
                /\ Take(chunks[i].text, overlap) = LastWords(chunks[i - 1].text, overlap)
           /\ words = <<>> => chunks = <<>>
           /\ (words # <<>> /\ Len(words) < size) =>
                 (n = 1 /\ chunks[1].text = words)
           /\ (size = 1000 /\ overlap = 200 /\ Len(words) = 1200) =>
                 /\ n = 2
                 /\ chunks[1].text = SubSeq(words, 1, 1000)
                 /\ chunks[2].text = SubSeq(words, 801, 1200)

\* the 1200-word text chunked by _create_chunks with the configured sizes
ChunkShapeWitness ==
    /\ chunker_pc = "done"
    /\ chunker = "document_processor"
    /\ chunk_cfg = [size |-> TEXT_CHUNK_SIZE, overlap |-> TEXT_CHUNK_OVERLAP]
    /\ words = Numbered(1200)
    /\ Len(chunks) = 2

(***************************************************************************)
(* Properties of the scoring engine and of the rules engine, checked under *)
(* SpecScoring.                                                            *)
(***************************************************************************)
ScoreReturned == scoring_call.op = "calculate_composite_score"

\* the weighted sum of the call that has run, before the clamp
CallWeightedSum ==
    WeightedSum(
        calculate_completeness_score(scoring_call.project_data),
        calculate_verifiability_score(scoring_call.claims),
        calculate_glp_alignment_score(scoring_call.project_data,
                                      scoring_call.extracted_text),
        calculate_dnsh_penalty(scoring_call.project_data,
                               scoring_call.extracted_text),
        calculate_carbon_penalty(scoring_call.project_data,
                                 scoring_call.extracted_text))

\* C7: for every input, the total_score calculate_composite_score returns
\* lies in the closed range 0..100 (total_score is in tenths of a point).
TotalScoreInRange ==
    ScoreReturned =>
        /\ scoring_result.total_score >= 0
        /\ scoring_result.total_score <= 100 * 10

\* the penalties exceed the weighted sub-scores and the total is clamped to 0
TotalScoreInRangeWitness ==
    /\ ScoreReturned
    /\ CallWeightedSum < 0
    /\ scoring_result.total_score = 0

\* The GLP-alignment sub-score and the two penalties of every use of
\* proceeds, extracted text, sector and location of the model.
PenaltyVariants ==
    {[glp |-> calculate_glp_alignment_score(
                  ProjectData(p[1], sector, location, {}, 0), p[2]),
      dnsh_p |-> calculate_dnsh_penalty(
                  ProjectData(p[1], sector, location, {}, 0), p[2]),
      carbon_p |-> calculate_carbon_penalty(
                  ProjectData(p[1], sector, location, {}, 0), p[2])] :
        p \in TextPairs, sector \in Sectors, location \in Locations}

\* The score of the input that has the fields, documents and claims of the
\* call that has run and the text, sector and location behind variant v.
VariantScore(v) ==
    ComposeScore(calculate_completeness_score(scoring_call.project_data),
                 calculate_verifiability_score(scoring_call.claims),
                 v.glp, v.dnsh_p, v.carbon_p)

\* the variants, by the GLP-alignment sub-score that is returned for them
VariantsByGlpScore ==
    [g \in {Round1(v.glp) : v \in PenaltyVariants} |->
        {v \in PenaltyVariants : Round1(v.glp) = g}]

\* the variants that have the GLP-alignment sub-score of the call that has run
SameGlpVariants == VariantsByGlpScore[scoring_result.glp_alignment_score]

\* v has one penalty larger than the call that has run, the other penalty
\* being equal
LargerPenaltyVariant(v) ==
    \/ /\ v.dnsh_p > scoring_result.dnsh_penalty
       /\ v.carbon_p = scoring_result.carbon_penalty
    \/ /\ v.carbon_p > scoring_result.carbon_penalty
       /\ v.dnsh_p = scoring_result.dnsh_penalty

\* the score has the sub-scores of the call that has run
SameSubScores(other) ==
    /\ other.completeness_score = scoring_result.completeness_score
    /\ other.verifiability_score = scoring_result.verifiability_score
    /\ other.glp_alignment_score = scoring_result.glp_alignment_score

\* C8, as stated: of two scoring inputs with the same completeness,
\* verifiability and GLP-alignment sub-scores, the one with the larger DNSH
\* penalty (or the larger carbon penalty, the other penalty being equal) has
\* a strictly smaller total_score.
TotalStrictlyDecreasesWithPenalty ==
    ScoreReturned =>
        \A v \in SameGlpVariants :
            LET other == VariantScore(v)
            IN  (LargerPenaltyVariant(v) /\ SameSubScores(other)) =>
                    other.total_score < scoring_result.total_score

\* C8, amended: of two scoring inputs with the same sub-scores, the one with
\* the larger penalty never has a larger total_score, and has a strictly
\* smaller one whenever the total_score of the other is above 0.
TotalDecreasesWithPenalty ==
    ScoreReturned =>
        \A v \in SameGlpVariants :
            LET other == VariantScore(v)
            IN  (LargerPenaltyVariant(v) /\ SameSubScores(other)) =>
                    /\ other.total_score <= scoring_result.total_score
                    /\ scoring_result.total_score > 0 =>
                           other.total_score < scoring_result.total_score

\* two inputs that differ in one penalty, both with a total above 0
TotalDecreasesWithPenaltyWitness ==
    /\ ScoreReturned
    /\ \E v \in SameGlpVariants :
          /\ LargerPenaltyVariant(v)
          /\ SameSubScores(VariantScore(v))
          /\ VariantScore(v).total_score > 0
          /\ VariantScore(v).total_score < scoring_result.total_score

\* the sector contains one of HIGH_RISK_SECTORS
InHighRiskSectors(sector) ==
    \E s \in HIGH_RISK_SECTORS : s \in KeywordsIn(sector)

RiskRank(risk_level) ==
    CASE risk_level = "low" -> 0
      [] risk_level = "medium" -> 1
      [] risk_level = "high" -> 2

\* the risk level of the text of the call that has run, under another sector
RiskLevelUnderSector(sector) ==
    assess_carbon_lockin(
        [scoring_call.project_data EXCEPT !.sector = sector],
        scoring_call.extracted_text).risk_level

\* C9: for any fixed text, the risk level assess_carbon_lockin computes with
\* a high-risk sector is never lower, in the order LOW < MEDIUM < HIGH, than
\* the level it computes for the same text with a sector that is not
\* high-risk.
CarbonLockinMonotone ==
    scoring_call.op = "assess_carbon_lockin" =>
        \A other \in Sectors :
            /\ (InHighRiskSectors(scoring_call.project_data.sector)
                /\ ~InHighRiskSectors(other)) =>
                   RiskRank(scoring_result.risk_level)
                       >= RiskRank(RiskLevelUnderSector(other))
            /\ (~InHighRiskSectors(scoring_call.project_data.sector)
                /\ InHighRiskSectors(other)) =>
                   RiskRank(scoring_result.risk_level)
                       <= RiskRank(RiskLevelUnderSector(other))

\* one indicator in the text: HIGH with the high-risk sector, MEDIUM without
CarbonLockinMonotoneWitness ==
    /\ scoring_call.op = "assess_carbon_lockin"
    /\ InHighRiskSectors(scoring_call.project_data.sector)
    /\ scoring_result.risk_level = "high"
    /\ \E other \in Sectors :
          /\ ~InHighRiskSectors(other)
          /\ RiskLevelUnderSector(other) = "medium"

\* C10: assess_glp_eligibility returns is_eligible = true exactly when the
\* use-of-proceeds validation is valid and the DNSH summary has overall_pass
\* and the carbon lock-in risk level is not HIGH.
EligibleIffAllThree ==
    scoring_call.op = "assess_glp_eligibility" =>
        LET project_data == scoring_call.project_data
            extracted_text == scoring_call.extracted_text
        IN  scoring_result.is_eligible
            = (/\ validate_use_of_proceeds(project_data.use_of_proceeds,
                                           project_data.sector).is_valid
               /\ get_dnsh_summary(
                      assess_dnsh(project_data, extracted_text)).overall_pass
               /\ assess_carbon_lockin(project_data,
                                       extracted_text).risk_level # "high")

\* a valid use of proceeds and a low risk, yet not eligible: a DNSH criterion
\* failed
EligibleIffAllThreeWitness ==
    /\ scoring_call.op = "assess_glp_eligibility"
    /\ scoring_result.use_of_proceeds_valid
    /\ scoring_result.carbon_lockin_risk # "high"
    /\ ~scoring_result.dnsh_pass
    /\ ~scoring_result.is_eligible

\* a negative indicator of the climate check occurs in the assessed text
NegativePhraseIn(text) ==
    \E s \in text :
        \E phrase \in {"increased emissions", "coal", "fossil fuel expansion"} :
            phrase \in KeywordsIn(s)

\* C11: whenever the assessed text contains a negative-emissions phrase such
\* as "coal", the climate_mitigation criterion is FAIL, DNSH overall_pass is
\* false and the DNSH penalty is exactly 30 whatever the other five criteria
\* return; when no criterion fails the penalty is exactly 5 times the number
\* of UNCLEAR criteria.
CoalFailsDnsh ==
    scoring_call.op = "calculate_dnsh_penalty" =>
        LET statuses == scoring_result.summary.results
            text == scoring_call.project_data.use_of_proceeds
                        \cup scoring_call.extracted_text
        IN  /\ NegativePhraseIn(text) =>
                   /\ statuses.climate_mitigation = "fail"
                   /\ ~scoring_result.summary.overall_pass
                   /\ scoring_result.penalty = 30
            /\ (\A c \in DOMAIN statuses : statuses[c] # "fail") =>
                   scoring_result.penalty
                       = 5 * Cardinality({c \in DOMAIN statuses :
                                             statuses[c] = "unclear"})

\* "coal" beside a positive climate term, and every other criterion passes
CoalFailsDnshWitness ==
    /\ scoring_call.op = "calculate_dnsh_penalty"
    /\ NegativePhraseIn(scoring_call.extracted_text)
    /\ AnyIn(positive_indicators, scoring_call.project_data.use_of_proceeds)
    /\ \A c \in DOMAIN scoring_result.summary.results \ {"climate_mitigation"} :
          scoring_result.summary.results[c] = "pass"
    /\ scoring_result.penalty = 30

(***************************************************************************)
(* Properties of RAGService.query.                                         *)
(***************************************************************************)
\* search returned to query: both lazy loads of the embedding service are done
SearchReturned == rag_call # NoRagCall /\ model /\ initialized

\* the generative pass ran and gave None or one of the "not found" answers
NoGeneratedAnswer ==
    /\ gen_out.kind # "none"
    /\ \A a \in gen_answer : a \in {"Not found", "not found", "not found.", "unknown"}

\* C12: query never raises for an extraction failure. When search returns no
\* chunk for the loan, when the context built from the chunks is empty, or
\* when the extractive pass and the generative pass both give no answer, query
\* returns the fixed answer of that case with confidence 0.
ExtractionFailureRecovered ==
    (rag_pc = "done" /\ SearchReturned) =>
        /\ rag_results = <<>> =>
               /\ ~rag_result.raised
               /\ rag_result.answer = "No documents indexed for this loan."
               /\ rag_result.confidence = 0
        /\ (rag_results # <<>> /\ context = <<>>) =>
               /\ ~rag_result.raised
               /\ rag_result.answer = "No relevant content found in documents."
               /\ rag_result.confidence = 0
        /\ (qa_out.kind # "none" /\ qa_answer.answer = {} /\ NoGeneratedAnswer) =>
               /\ ~rag_result.raised
               /\ rag_result.answer = "Could not extract a clear answer from the documents."
               /\ rag_result.confidence = 0

\* both passes ran on a context and gave no answer: the pipeline raised, the
\* generator said "Not found"
ExtractionFailureRecoveredWitness ==
    /\ rag_pc = "done"
    /\ SearchReturned
    /\ context # <<>>
    /\ qa_out.kind = "error"
    /\ gen_out = RagOut("answer", "Not found", 0)
    /\ rag_result.confidence = 0

\* C13: initialization failures are propagated. A query in which the load of
\* the embedding model, of the index, of the question-answering model or of
\* the generative model failed raises to its caller; it returns no result.
LoadFailurePropagated ==
    rag_pc = "done" =>
        /\ ~SearchReturned => rag_result.raised
        /\ qa_out.kind = "load_failed" => rag_result.raised
        /\ gen_out.kind = "load_failed" => rag_result.raised

\* the answers of the pipeline that pass the validity filter
ValidQaTexts == {"Net zero by 2040"}

\* C19: last-resort fallback. When the generative pass gave no acceptable
\* answer and the extractive pass had produced an answer that was not accepted
\* (here one that passes the validity filter, with a score of at most 0.6),
\* query returns that answer with its own score, however low the score is.
LastResortAnyScore ==
    (/\ rag_pc = "done"
     /\ qa_out.kind = "answer"
     /\ qa_out.answer \in ValidQaTexts
     /\ qa_out.score <= 60
     /\ NoGeneratedAnswer) =>
        /\ rag_result.answer = qa_out.answer
        /\ rag_result.confidence = qa_out.score

\* the pipeline's answer has a score above 0.6 and passes the validity filter
ExtractiveAcceptable ==
    qa_out.kind = "answer" /\ qa_out.score > 60 /\ qa_out.answer \in ValidQaTexts

\* the generator's texts that pass the validity filter and do not say "not found"
AcceptableGenTexts == {"Net zero by 2040"}

\* C20: extraction order. Once the extractive pass has run, query returns its
\* answer from the extractive step (the return of lines 211-216, before the
\* generator is used) exactly when the score exceeds 0.6 and the answer passes
\* the validity filter; the generator is consulted only when that was not so;
\* and the generator's output is returned only when it passes the validity
\* filter and is none of the "not found" answers.
ExtractionOrder ==
    qa_out.kind # "none" =>
        /\ rag_pc = "generate" => ~ExtractiveAcceptable
        /\ rag_pc = "done" =>
               /\ rag_result.site = "extractive" <=> ExtractiveAcceptable
               /\ rag_result.site = "extractive" =>
                      /\ rag_result.answer = qa_out.answer
                      /\ rag_result.confidence = qa_out.score
               /\ ExtractiveAcceptable <=> gen_out.kind = "none"
               /\ rag_result.site = "generative" =>
                      /\ gen_out.kind = "answer"
                      /\ gen_out.answer \in AcceptableGenTexts
                      /\ rag_result.answer = gen_out.answer

\* a valid extractive answer with score 0.6 exactly was rejected, the
\* generator was consulted and its answer returned
ExtractionOrderWitness ==
    /\ rag_pc = "done"
    /\ qa_out = RagOut("answer", "Net zero by 2040", 60)
    /\ gen_out = RagOut("answer", "Net zero by 2040", 0)
    /\ rag_result.site = "generative"
    /\ rag_result.confidence = 70

(***************************************************************************)
(* Properties of the metrics calculator.                                   *)
(***************************************************************************)
\* C14: a target_reduction string that is no number is treated as "target not
\* set": calculate_all_metrics returns the transition score, the sub-scores
\* and the SPT output (None) it returns for the same inputs without a
\* target_reduction.
NonNumericTargetAsAbsent ==
    (metrics_call.op = "calculate_all_metrics"
     /\ metrics_call.target_reduction.kind = "text") =>
        LET c == metrics_call
            absent == calculate_all_metrics(c.scope1, c.scope2, c.scope3, c.sector,
                          TargetReduction("none", 0), c.baseline_year,
                          c.questionnaire_data, c.glp_eligible, c.sector_risk)
        IN /\ metrics_result.transition_score = absent.transition_score
           /\ metrics_result.spt_metrics = absent.spt_metrics
           /\ metrics_result.spt_metrics = {}

(***************************************************************************)
(* Properties of the ingestion run.                                        *)
(***************************************************************************)
\* the documents whose chunks are in the loan's index
IndexedDocs == {chunk_mapping[i].document_id : i \in 1..Len(chunk_mapping)}

\* C15: in a run over several documents, a document whose text extraction
\* raises is skipped: the run ends with status completed and every other
\* document that has text is chunked and indexed.
ExtractionErrorSkipsDocument ==
    (/\ ingest_pc = "done"
     /\ Len(documents) > 1
     /\ \E i \in 1..Len(documents) : ExtractionRaises(documents[i])) =>
        /\ job_status = "completed"
        /\ ~ingest_raised
        /\ \A j \in 1..Len(documents) :
               (~ExtractionRaises(documents[j]) /\ HasText(documents[j]))
                   => j \in IndexedDocs

(***************************************************************************)
(* Properties of the service under concurrent handlers and restarts.       *)
(***************************************************************************)
\* C16: each model instance is constructed at most once per process: however
\* the first uses of the handlers interleave, the embedding model is loaded
\* once and the index is loaded or created once.
LoadedAtMostOnce == model_loads <= 1 /\ index_loads <= 1

AllReturned == \A h \in Handlers : handlers[h].pc = "idle"

\* how many entries of meta belong to loan_id
CountOf(meta, loan_id) == Cardinality({i \in 1..Len(meta) : meta[i].loan_id = loan_id})

\* vector i is the embedding of the text of entry i
Describes(meta, idx) ==
    /\ Len(idx) = Len(meta)
    /\ \A i \in 1..Len(meta) : idx[i] = Embed(meta[i].text)

\* C17: add and clear do not interleave. Once all calls of the handlers have
\* returned (the process never having stopped), the index holds as many
\* vectors as the metadata has entries, entry i describes vector i, and the
\* chunks whose add returned since the loan was last cleared are in the index.
AddClearSerialized ==
    (AllReturned /\ crashes = 0 /\ initialized) =>
        /\ Describes(metadata, index)
        /\ \A loan_id \in Loans : CountOf(metadata, loan_id) >= added[loan_id]

\* C18: index and metadata are persisted atomically. At every moment the two
\* files exist together and describe the same chunks, and they hold every
\* chunk for which add_chunks returned a count (since the loan's last clear),
\* so that a start from the files loads a consistent and complete index.
PersistedAtomically ==
    /\ index_file = <<>> <=> metadata_file = <<>>
    /\ index_file # <<>> /\ metadata_file # <<>> =>
           Describes(metadata_file[1], index_file[1])
    /\ \A loan_id \in Loans :
           added[loan_id] > 0 =>
               /\ metadata_file # <<>>
               /\ CountOf(metadata_file[1], loan_id) >= added[loan_id]

(***************************************************************************)
(* Properties of retrieval over a shared index, checked under              *)
(* SpecRetrieval.                                                          *)
(***************************************************************************)

\* C21: query returns the "no documents" result only when the loan has no
\* indexed chunk: whenever at least one chunk is indexed for the queried loan,
\* the retrieval filtered to that loan returns at least one chunk, however
\* many chunks the other loans have in the index.
IndexedLoanRetrieved ==
    (/\ rag_pc # "idle"
     /\ ~rag_result.raised
     /\ LoanChunks(metadata, rag_call.loan_id) # {})
    => /\ rag_results # <<>>
       /\ rag_result.site # "no_documents"

(***************************************************************************)
(* Further properties of the rules engine, checked under SpecScoring.      *)
(***************************************************************************)

\* the level the rule gives for n indicators found and the sector's risk
RiskLevelRule(n, high_risk) ==
    IF n >= 2 \/ (n >= 1 /\ high_risk) THEN "high"
    ELSE IF n >= 1 \/ high_risk THEN "medium"
    ELSE "low"

\* the carbon lock-in indicators that occur in a combined text
IndicatorsIn(text) == {ind \in CARBON_LOCKIN_INDICATORS : \E s \in text : ind \in KeywordsIn(s)}

\* the combined text holds one of the transition phrases
TransitionLanguageIn(text) == \E s \in text, t \in transition_indicators : t \in KeywordsIn(s)

\* the texts of the call that has run
CallText == scoring_call.project_data.use_of_proceeds \cup scoring_call.extracted_text

\* the texts with the indicators of the call that has run, whatever transition
\* language they hold
SameIndicatorTexts == {p \in TextPairs : IndicatorsIn(p[1] \cup p[2]) = IndicatorsIn(CallText)}

\* the result for the sector of the call that has run and the texts p
LockinUnderText(p) ==
    assess_carbon_lockin(
        [scoring_call.project_data EXCEPT !.use_of_proceeds = p[1]], p[2])

\* the level of the call that has run follows the rule
LockinLevelFollowsRule ==
    scoring_result.risk_level
        = RiskLevelRule(Cardinality(IndicatorsIn(CallText)),
                        InHighRiskSectors(scoring_call.project_data.sector))

\* C22 as stated: the level is HIGH with at least 2 indicators or at least 1
\* in a high-risk sector, else MEDIUM with at least 1 indicator or a high-risk
\* sector, else LOW; transition-plan language changes nothing of the result
\* but the recommendation text.
LockinPlanChangesOnlyRecommendation ==
    scoring_call.op = "assess_carbon_lockin" =>
        /\ LockinLevelFollowsRule
        /\ \A p \in SameIndicatorTexts :
              /\ LockinUnderText(p).risk_level = scoring_result.risk_level
              /\ LockinUnderText(p).indicators_found = scoring_result.indicators_found
              /\ LockinUnderText(p).assessment = scoring_result.assessment

\* C22, amended: the level follows the rule and transition-plan language
\* never changes it; at MEDIUM the language changes the assessment text and
\* the recommendation text, at HIGH and LOW it changes nothing.
LockinPlanChangesOnlyTexts ==
    scoring_call.op = "assess_carbon_lockin" =>
        /\ LockinLevelFollowsRule
        /\ \A p \in SameIndicatorTexts :
              /\ LockinUnderText(p).risk_level = scoring_result.risk_level
              /\ LockinUnderText(p).indicators_found = scoring_result.indicators_found
              /\ (\/ scoring_result.risk_level # "medium"
                  \/ TransitionLanguageIn(p[1] \cup p[2]) = TransitionLanguageIn(CallText))
                 => LockinUnderText(p) = scoring_result
              /\ (/\ scoring_result.risk_level = "medium"
                  /\ TransitionLanguageIn(p[1] \cup p[2]) # TransitionLanguageIn(CallText))
                 => /\ LockinUnderText(p).assessment # scoring_result.assessment
                    /\ LockinUnderText(p).recommendation # scoring_result.recommendation

\* one indicator with transition language outside the high-risk sectors:
\* MEDIUM, as for the same indicator without the language
LockinPlanChangesOnlyTextsWitness ==
    /\ scoring_call.op = "assess_carbon_lockin"
    /\ Cardinality(IndicatorsIn(CallText)) = 1
    /\ ~InHighRiskSectors(scoring_call.project_data.sector)
    /\ TransitionLanguageIn(CallText)
    /\ scoring_result.risk_level = "medium"
    /\ \E p \in SameIndicatorTexts :
          /\ ~TransitionLanguageIn(p[1] \cup p[2])
          /\ LockinUnderText(p).risk_level = "medium"
          /\ LockinUnderText(p).recommendation # scoring_result.recommendation

(***************************************************************************)
(* Properties of the category mapping, checked under SpecCategory.         *)
(***************************************************************************)

\* f"{use_of_proceeds} {sector}" of the call that has run
MappedText == scoring_call.project_data.use_of_proceeds \cup {scoring_call.project_data.sector}

\* the keywords of a category that occur in the mapped text
CategoryHits(category) ==
    {kw \in category_mapping(category) : \E s \in MappedText : kw \in KeywordsIn(s)}

\* min(0.95, 0.5 + 0.15 * hits) in hundredths, 0 for a category without a hit
CategoryScore(category) ==
    LET hits == Cardinality(CategoryHits(category))
    IN  IF hits = 0 THEN 0
        ELSE IF 50 + 15 * hits > 95 THEN 95 ELSE 50 + 15 * hits

Categories == {category_order[i] : i \in 1..Len(category_order)}

\* C23: the category mapping assigns a category with the highest score, the
\* score of a category being min(0.95, 0.5 + 0.15 * hits) for its keyword
\* hits, and returns that score as the confidence; with no hit in any
\* category the result is "Unknown" with confidence 0.
HighestScoringCategory ==
    scoring_call.op = "validate_use_of_proceeds" =>
        IF \A c \in Categories : CategoryHits(c) = {}
        THEN /\ scoring_result.glp_category = "Unknown"
             /\ scoring_result.confidence = 0
        ELSE /\ scoring_result.glp_category \in Categories
             /\ scoring_result.confidence = CategoryScore(scoring_result.glp_category)
             /\ \A c \in Categories : CategoryScore(c) <= scoring_result.confidence

\* the winning category has more than three hits, so that its score is
\* capped, while another category has hits and a lower score
HighestScoringCategoryWitness ==
    /\ scoring_call.op = "validate_use_of_proceeds"
    /\ scoring_result.glp_category \in Categories
    /\ Cardinality(CategoryHits(scoring_result.glp_category)) > 3
    /\ scoring_result.confidence = 95
    /\ \E c \in Categories :
          /\ CategoryHits(c) # {}
          /\ CategoryScore(c) < 95

(***************************************************************************)
(* Further properties of the metrics calculator, checked under             *)
(* SpecMetrics.                                                            *)
(***************************************************************************)

\* the bands of the ESG grade below A+, for a total in points
EsgBand(total) ==
    IF total >= 80 THEN "A"
    ELSE IF total >= 70 THEN "B"
    ELSE IF total >= 60 THEN "C"
    ELSE IF total >= 50 THEN "D"
    ELSE "F"

\* C24: the transition credibility total is graded on the bands of the ESG
\* score: A at 80 or above, B at 70 or above, C at 60 or above, D at 50 or
\* above, F below 50.
TransitionGradedOnEsgBands ==
    metrics_call.op = "calculate_all_metrics" =>
        /\ metrics_result.transition_score.total \in 0..100
        /\ metrics_result.transition_score.grade
               = EsgBand(metrics_result.transition_score.total)

\* the annual reduction rate r of the call that has run, in millionths of a
\* percent: the compound rate that takes the emissions from the baseline to the
\* target over the years from the baseline year (2025 when none is given) to
\* the target year 2030
CallAnnualRate ==
    LET base_year == IF metrics_call.baseline_year = {} THEN 2025
                     ELSE CHOOSE y \in metrics_call.baseline_year : TRUE
    IN  AnnualRate(metrics_call.target_reduction.value,
                   IF 2030 - base_year >= 1 THEN 2030 - base_year ELSE 1)

\* the band of a rate r given in millionths of a percent
SptBand(r) ==
    IF r >= 7000000 THEN "science-based"
    ELSE IF r >= 4200000 THEN "ambitious"
    ELSE IF r >= 2500000 THEN "moderate"
    ELSE "low"

\* C26: the SPT calibration bands the annual reduction rate r as
\* "science-based" if r >= 7, "ambitious" if 4.2 <= r < 7, "moderate" if
\* 2.5 <= r < 4.2, else "low", and is_science_based is true exactly when
\* r >= 4.2; for baseline 1000, reduction 30%, baseline year 2025 and target
\* year 2030 the result has target_emissions 700, ambition_level "ambitious"
\* and is_science_based true.
SptBands ==
    (metrics_call.op = "calculate_all_metrics" /\ metrics_result.spt_metrics # {}) =>
        \A spt \in metrics_result.spt_metrics :
            /\ spt.ambition_level = SptBand(CallAnnualRate)
            /\ spt.is_science_based = (CallAnnualRate >= 4200000)
            /\ (/\ spt.baseline_emissions = 1000
                /\ metrics_call.target_reduction.value = 30
                /\ metrics_call.baseline_year \in {{}, {2025}})
               => /\ spt.target_emissions = 70000
                  /\ spt.target_year = 2030
                  /\ spt.ambition_level = "ambitious"
                  /\ spt.is_science_based

\* the example of the claim: emissions 1000, reduction 30%, baseline year 2025
SptBandsWitness ==
    /\ metrics_call.op = "calculate_all_metrics"
    /\ metrics_call.baseline_year = {2025}
    /\ metrics_call.target_reduction = TargetReduction("number", 30)
    /\ \E spt \in metrics_result.spt_metrics :
          /\ spt.baseline_emissions = 1000
          /\ spt.target_emissions = 70000
          /\ spt.ambition_level = "ambitious"
          /\ spt.is_science_based

(***************************************************************************)
(* Further properties of the ingestion run, checked under SpecIngestion.   *)
(***************************************************************************)

\* C25: a chunk is identified by (loan_id, chunk_index): after a run has
\* ingested the documents of a loan, no two chunks indexed for that loan share
\* a chunk_index.
ChunkIndexIdentifies ==
    (ingest_pc = "done" /\ job_status = "completed") =>
        \A i, j \in 1..Len(chunk_mapping) :
            chunk_mapping[i].chunk_index = chunk_mapping[j].chunk_index => i = j

(***************************************************************************)
(* Further properties of the eligibility assessment, checked under         *)
(* SpecScoring.                                                            *)
(***************************************************************************)

\* C27: assess_glp_eligibility returns is_eligible = true exactly when the
\* issues list it returns is empty: an eligible result carries no issue and an
\* ineligible result carries at least one.
EligibleIffNoIssues ==
    scoring_call.op = "assess_glp_eligibility" =>
        (scoring_result.is_eligible <=> scoring_result.issues = <<>>)

\* a valid use of proceeds that passes DNSH and is ineligible for its HIGH
\* lock-in risk alone: the one issue is the lock-in assessment
EligibleIffNoIssuesWitness ==
    /\ scoring_call.op = "assess_glp_eligibility"
    /\ ~scoring_result.is_eligible
    /\ scoring_result.use_of_proceeds_valid
    /\ scoring_result.dnsh_pass
    /\ scoring_result.carbon_lockin_risk = "high"
    /\ Len(scoring_result.issues) = 1

(***************************************************************************)
(* Properties of the composite score of green projects, checked under      *)
(* SpecGreenScoring.                                                       *)
(***************************************************************************)

\* C28: for every input the total_score of calculate_composite_score is below
\* 70 (the three weighted sub-scores contribute at most 20 + 25 + 25 before
\* the penalties), so the grade is always C, D or F and never A+, A or B.
TotalBelowSeventy ==
    scoring_call.op = "calculate_composite_score" =>
        /\ scoring_result.total_score < 700
        /\ scoring_result.grade \in {"C", "D", "F"}

\* the best project: every required field, every claim verified, eligible in
\* a category with the capped confidence, proceeds tracked and reported, no
\* penalty
TotalBelowSeventyWitness ==
    /\ scoring_call.op = "calculate_composite_score"
    /\ scoring_result.completeness_score = 1000
    /\ scoring_result.verifiability_score = 1000
    /\ scoring_result.glp_alignment_score = 970
    /\ scoring_result.dnsh_penalty = 0
    /\ scoring_result.carbon_penalty = 0
    /\ scoring_result.total_score >= 690
    /\ scoring_result.grade = "C"

(***************************************************************************)
(* Termination of the chunkers, checked under SpecChunkerFair.             *)
(***************************************************************************)

\* C29: with overlap < chunk_size the chunking loop terminates for every
\* text: start_idx strictly increases on every iteration, so a text of n
\* words produces a finite number of chunks, at most n, and the chunker
\* returns.
ChunkingTerminates ==
    /\ [][chunks' # chunks => start_idx' > start_idx]_vars
    /\ [](Len(chunks) <= Len(words))
    /\ <>(chunker_pc = "done")

\* a chunker has returned after several iterations under a configuration with
\* an overlap
ChunkingTerminatesWitness ==
    /\ chunker_pc = "done"
    /\ chunk_cfg.overlap > 0
    /\ chunk_cfg.overlap < chunk_cfg.size
    /\ Len(chunks) >= 3
    /\ start_idx = Len(words)

(***************************************************************************)
(* C30: re-running ingestion for a loan replaces its index.                *)
(***************************************************************************)
\* the chunks a run over docs produces, from document i on
RECURSIVE RunChunks(_, _)
RunChunks(docs, i) ==
    IF i > Len(docs) THEN <<>>
    ELSE (IF docs[i].text_extracted
          THEN [c \in 1..docs[i].n_chunks |-> [document_id |-> i, chunk_index |-> c - 1]]
          ELSE <<>>) \o RunChunks(docs, i + 1)

\* what the loan's files hold: no file is an empty index
PersistedMapping == IF mapping_path = <<>> THEN <<>> ELSE mapping_path[1]
PersistedVectors == IF index_path = <<>> THEN 0 ELSE index_path[1]

====
